---- MODULE Spec2Model ----
(***************************************************************************)
(* Spec-Sailor: the upload validation gate, the in-memory job store of the *)
(* upload API, and the feature calculators of the batch pipeline and of    *)
(* the upload path.                                                        *)
(***************************************************************************)
EXTENDS Integers, Sequences, FiniteSets, TLC

VARIABLES
    file,               \* the UploadFile handed to validate_and_parse
    validation_result,  \* what _validate_columns returned for file.df
    parse_outcome,      \* what validate_and_parse returned or raised
    upload_storage,     \* simple_api.upload_storage: job id -> entry
    response,           \* the response of the last API request
    engineered,         \* history: the tables engineer_features has run on
    events_df,          \* the raw event table: its columns and its rows
    profiles_df,        \* the profile master list
    as_of_date,         \* the as-of cutoff
    seed_draw,          \* what the seeded generator returns before scaling
    engagement_features, \* what calculate_all_users_engagement returned
    result_df,          \* what AutoFeatureEngineer.engineer_features returned
    features_df,        \* what engineer_all_features returned
    rerun_df,           \* what a second run of engineer_all_features returned
    feature_config,     \* the manifest save_features wrote, main.feature_config
    batch_error,        \* the exception a batch of the calculators ended with
    model,              \* main.model: whether the booster is loaded
    request,            \* the users of a batch prediction request, as posted
    feature_vectors,    \* the feature vectors predict_batch built
    customers_df,       \* the raw Telco customer table
    df_clean,           \* what clean_telco_data returned
    kaggle_features,    \* the table transform_kaggle_data wrote
    random_draws,       \* what numpy's generator returned to transform_kaggle_data
    df_features,        \* what a tabular engineer_* function returned
    islamic_df,         \* what calculate_all_users_islamic returned
    user_agg,           \* the user_agg table of fast_features_with_progress.py
    scored_df,          \* the features with the heuristic's probability and level
    step_results,       \* run_pipeline: what run_command returned for each step run
    completed,          \* run_pipeline: the count of steps that succeeded
    exit_status,        \* run_pipeline: the exit status of the run, once it ended
    printed             \* run_pipeline: the headers and failures it printed

gateVars == <<file, validation_result, parse_outcome>>
apiVars == <<upload_storage, response, engineered>>
featureVars ==
    <<events_df, profiles_df, as_of_date, seed_draw, engagement_features, result_df, features_df,
      rerun_df, feature_config, batch_error>>
inferenceVars == <<model, request, feature_vectors>>
telcoVars == <<customers_df, df_clean, kaggle_features, random_draws, df_features>>
islamicVars == <<islamic_df, user_agg, scored_df>>
pipelineVars == <<step_results, completed, exit_status, printed>>
vars ==
    <<file, validation_result, parse_outcome, upload_storage, response, engineered,
      events_df, profiles_df, as_of_date, seed_draw, engagement_features, result_df,
      features_df, rerun_df, feature_config, batch_error, model, request, feature_vectors,
      customers_df, df_clean, kaggle_features, random_draws, df_features,
      islamic_df, user_agg, scored_df, step_results, completed, exit_status, printed>>

\* Python's None, and an absent optional value: the empty sequence; a present
\* value v is <<v>>.
None == << >>
Some(v) == <<v>>
IsNone(x) == x = << >>
The(x) == x[1]

Range(s) == {s[i] : i \in DOMAIN s}

(***************************************************************************)
(* Upload validation gate (api/upload_handler.py)                          *)
(***************************************************************************)
REQUIRED_COLUMNS == <<"user_id", "event_timestamp", "event_type">>
ALLOWED_EXTENSIONS == <<".csv", ".xlsx", ".json">>
OPTIONAL_COLUMNS == <<"session_duration", "donation_amount", "content_category">>
MAX_FILE_SIZE == 52428800
MIN_EVENTS == 100
MIN_USERS == 10

\* How far the sampled row, user and null counts range around the thresholds.
Margin == 1

\* A parsed DataFrame, by what the gate reads of it: its columns, len(df),
\* df[col].isnull().sum() per required column, whether pd.to_datetime accepts
\* the event_timestamp column, and df['user_id'].nunique().
RowCounts == {0} \cup ((MIN_EVENTS - Margin) .. (MIN_EVENTS + Margin))
UserCounts == {0} \cup ((MIN_USERS - Margin) .. (MIN_USERS + Margin))
ColumnSets ==
    {r \cup o : r \in SUBSET Range(REQUIRED_COLUMNS), o \in SUBSET Range(OPTIONAL_COLUMNS)}

WellFormedTable(df) ==
    /\ \A c \in Range(REQUIRED_COLUMNS) :
          /\ df.nulls[c] <= df.rows
          /\ c \notin df.columns => df.nulls[c] = 0
    /\ "event_timestamp" \notin df.columns => df.timestamps_parse
    /\ df.rows = 0 => df.timestamps_parse
    /\ IF "user_id" \in df.columns
          THEN /\ df.unique_users <= df.rows - df.nulls["user_id"]
               /\ df.rows - df.nulls["user_id"] > 0 => df.unique_users > 0
          ELSE df.unique_users = 0

Tables ==
    {df \in [columns : ColumnSets,
             rows : RowCounts,
             nulls : [Range(REQUIRED_COLUMNS) -> 0 .. Margin],
             timestamps_parse : BOOLEAN,
             unique_users : UserCounts] : WellFormedTable(df)}

Error(rule, columns, count) == [rule |-> rule, columns |-> columns, count |-> count]

missing_column_errors(df) ==
    LET missing_cols == SelectSeq(REQUIRED_COLUMNS, LAMBDA col : col \notin df.columns)
    IN  IF Len(missing_cols) > 0
            THEN <<Error("missing_columns", missing_cols, Len(missing_cols))>>
            ELSE <<>>

null_error(df, col) ==
    IF col \in df.columns /\ df.nulls[col] > 0
        THEN <<Error("nulls", <<col>>, df.nulls[col])>>
        ELSE <<>>

RECURSIVE null_errors(_, _)
null_errors(df, cols) ==
    IF cols = <<>> THEN <<>>
    ELSE null_error(df, Head(cols)) \o null_errors(df, Tail(cols))

timestamp_errors(df) ==
    IF "event_timestamp" \in df.columns /\ ~df.timestamps_parse
        THEN <<Error("timestamp", <<"event_timestamp">>, 0)>>
        ELSE <<>>

\* The minimum-rows check with <= for <.
row_count_errors_off_by_one(df) ==
    IF df.rows <= MIN_EVENTS
        THEN <<Error("rows", <<>>, df.rows)>>
        ELSE <<>>

row_count_errors(df) ==
    IF df.rows < MIN_EVENTS
        THEN <<Error("rows", <<>>, df.rows)>>
        ELSE <<>>

user_count_errors(df) ==
    LET unique_users == IF "user_id" \in df.columns THEN df.unique_users ELSE 0
    IN  IF unique_users < MIN_USERS
            THEN <<Error("users", <<>>, unique_users)>>
            ELSE <<>>

\* A gate that stops at the first violated rule.
validation_errors_first_only(df) ==
    LET errors == missing_column_errors(df) \o null_errors(df, REQUIRED_COLUMNS)
                    \o timestamp_errors(df) \o row_count_errors(df)
                    \o user_count_errors(df)
    IN  IF errors = <<>> THEN <<>> ELSE <<Head(errors)>>

validation_errors(df) ==
    missing_column_errors(df) \o null_errors(df, REQUIRED_COLUMNS)
        \o timestamp_errors(df) \o row_count_errors(df) \o user_count_errors(df)

optional_column_warnings(df) ==
    LET missing_optional == SelectSeq(OPTIONAL_COLUMNS, LAMBDA col : col \notin df.columns)
    IN  IF Len(missing_optional) > 0
            THEN <<Error("optional_missing", missing_optional, Len(missing_optional))>>
            ELSE <<>>

validate_columns(df) ==
    LET errors == validation_errors(df)
        warnings == optional_column_warnings(df)
    IN  [is_valid |-> Len(errors) = 0, errors |-> errors, warnings |-> warnings]

create_summary(df) == [total_events |-> df.rows, unique_users |-> df.unique_users]

\* An uploaded file: its extension, its size in bytes, whether pandas parses
\* it, and the DataFrame it parses to.
Extensions == Range(ALLOWED_EXTENSIONS) \cup {".txt"}
EmptyTable ==
    [columns |-> {}, rows |-> 0, nulls |-> [c \in Range(REQUIRED_COLUMNS) |-> 0],
     timestamps_parse |-> TRUE, unique_users |-> 0]
Files ==
    {[ext |-> ".csv", size |-> MAX_FILE_SIZE, parses |-> TRUE, df |-> df] : df \in Tables}
    \cup {[ext |-> e, size |-> s, parses |-> p, df |-> EmptyTable] :
            e \in Extensions, s \in {MAX_FILE_SIZE, MAX_FILE_SIZE + 1}, p \in BOOLEAN}

HTTPException(status_code, detail) ==
    [raised |-> TRUE, status_code |-> status_code, detail |-> detail, result |-> None]
Returned(result) ==
    [raised |-> FALSE, status_code |-> 200, detail |-> << >>, result |-> Some(result)]

\* validate_and_parse without its "if not is_valid: raise" check.
validate_and_parse_unchecked(f, upload_id) ==
    IF f.ext \notin Range(ALLOWED_EXTENSIONS)
        THEN HTTPException(400, <<Error("unsupported_file_type", <<>>, 0)>>)
    ELSE IF f.size > MAX_FILE_SIZE
        THEN HTTPException(400, <<Error("file_too_large", <<>>, 0)>>)
    ELSE IF ~f.parses
        THEN HTTPException(400, <<Error("parse_failed", <<>>, 0)>>)
    ELSE Returned([upload_id |-> upload_id, data |-> f.df,
                   validation |-> validate_columns(f.df),
                   summary |-> create_summary(f.df)])

validate_and_parse(f, upload_id) ==
    IF f.ext \notin Range(ALLOWED_EXTENSIONS)
        THEN HTTPException(400, <<Error("unsupported_file_type", <<>>, 0)>>)
    ELSE IF f.size > MAX_FILE_SIZE
        THEN HTTPException(400, <<Error("file_too_large", <<>>, 0)>>)
    ELSE IF ~f.parses
        THEN HTTPException(400, <<Error("parse_failed", <<>>, 0)>>)
    ELSE LET validation == validate_columns(f.df)
         IN  IF ~validation.is_valid
                 THEN HTTPException(400, validation.errors)
                 ELSE Returned([upload_id |-> upload_id, data |-> f.df,
                                validation |-> validation,
                                summary |-> create_summary(f.df)])

(***************************************************************************)
(* Upload API and its job store (api/simple_api.py)                        *)
(***************************************************************************)
\* The job ids uuid4 can hand out.
MaxJobs == 2
JobIds == 1 .. MaxJobs

\* The files the API model uploads: every way of failing the gate, and the
\* tables that pass it with all or with none of the optional columns.
UploadFiles ==
    {f \in Files :
        /\ f.df.rows <= MIN_EVENTS
        /\ f.df.unique_users <= MIN_USERS
        /\ \/ Range(OPTIONAL_COLUMNS) \subseteq f.df.columns
           \/ Range(OPTIONAL_COLUMNS) \cap f.df.columns = {}}

Response(endpoint, status_code, job_id, body) ==
    [endpoint |-> endpoint, status_code |-> status_code, job_id |-> job_id, body |-> body]

StorageEntry(result) ==
    [data |-> result.data, summary |-> result.summary, status |-> "uploaded",
     predictions |-> None, error |-> None]

\* upload_data storing whatever was parsed, valid or not.
upload_data_unvalidated(f, upload_id) ==
    LET outcome == validate_and_parse_unchecked(f, upload_id)
    IN  IF outcome.raised
            THEN /\ response' = Some(Response("upload", outcome.status_code, 0, "error"))
                 /\ UNCHANGED upload_storage
            ELSE /\ upload_storage' =
                        (upload_id :> StorageEntry(The(outcome.result))) @@ upload_storage
                 /\ response' = Some(Response("upload", 200, upload_id, "uploaded"))

upload_data(f, upload_id) ==
    LET outcome == validate_and_parse(f, upload_id)
    IN  IF outcome.raised
            THEN /\ response' = Some(Response("upload", outcome.status_code, 0, "error"))
                 /\ UNCHANGED upload_storage
            ELSE /\ upload_storage' =
                        (upload_id :> StorageEntry(The(outcome.result))) @@ upload_storage
                 /\ response' = Some(Response("upload", 200, upload_id, "uploaded"))

\* The table is abstract here, so the features engineer_features derives from
\* it are too: the predictions table keeps the number of users it has rows for.
analyze_predictions(raw_data) == [total_users |-> raw_data.unique_users]

\* analyze_uploaded_data marking every job of the store, not only its own.
analyze_uploaded_data_every_slot(upload_id, succeeds) ==
    IF upload_id \notin DOMAIN upload_storage
        THEN /\ response' = Some(Response("analyze", 404, upload_id, "Upload not found"))
             /\ UNCHANGED <<upload_storage, engineered>>
    ELSE LET raw_data == upload_storage[upload_id].data
         IN  /\ engineered' = engineered \cup {raw_data}
             /\ upload_storage' =
                    [job_id \in DOMAIN upload_storage |->
                        [upload_storage[job_id] EXCEPT
                            !.status = IF succeeds THEN "completed" ELSE "failed"]]
             /\ response' =
                    Some(Response("analyze", IF succeeds THEN 200 ELSE 500, upload_id,
                                  IF succeeds THEN "completed" ELSE "Analysis failed"))

\* succeeds: whether feature engineering and the heuristic ran without raising
\* (they raise, for one, on timezone-aware timestamps compared with now()).
analyze_uploaded_data(upload_id, succeeds) ==
    IF upload_id \notin DOMAIN upload_storage
        THEN /\ response' = Some(Response("analyze", 404, upload_id, "Upload not found"))
             /\ UNCHANGED <<upload_storage, engineered>>
    ELSE LET raw_data == upload_storage[upload_id].data
         IN  /\ engineered' = engineered \cup {raw_data}
             /\ IF succeeds
                   THEN /\ upload_storage' =
                              [upload_storage EXCEPT
                                  ![upload_id].predictions = Some(analyze_predictions(raw_data)),
                                  ![upload_id].status = "completed"]
                        /\ response' = Some(Response("analyze", 200, upload_id, "completed"))
                   ELSE /\ upload_storage' =
                              [upload_storage EXCEPT
                                  ![upload_id].status = "failed",
                                  ![upload_id].error = Some("Analysis failed")]
                        /\ response' = Some(Response("analyze", 500, upload_id, "Analysis failed"))

\* get_analysis_results answering by what is stored, not by the status.
get_analysis_results_if_stored(job_id) ==
    /\ response' =
          IF job_id \notin DOMAIN upload_storage
              THEN Some(Response("results", 404, job_id, "Job not found"))
          ELSE IF IsNone(upload_storage[job_id].predictions)
              THEN Some(Response("results", 200, job_id, upload_storage[job_id].status))
          ELSE Some(Response("results", 200, job_id, "predictions"))
    /\ UNCHANGED <<upload_storage, engineered>>

get_analysis_results(job_id) ==
    /\ response' =
          IF job_id \notin DOMAIN upload_storage
              THEN Some(Response("results", 404, job_id, "Job not found"))
          ELSE IF upload_storage[job_id].status # "completed"
              THEN Some(Response("results", 200, job_id, upload_storage[job_id].status))
          ELSE Some(Response("results", 200, job_id, "predictions"))
    /\ UNCHANGED <<upload_storage, engineered>>

\* upload_storage[job_id]['predictions'] raises KeyError for a job never
\* analyzed successfully: the framework answers 500.
download_results(job_id) ==
    /\ response' =
          IF job_id \notin DOMAIN upload_storage
              THEN Some(Response("download", 404, job_id, "Job not found"))
          ELSE IF IsNone(upload_storage[job_id].predictions)
              THEN Some(Response("download", 500, job_id, "KeyError"))
          ELSE Some(Response("download", 200, job_id, "predictions_csv"))
    /\ UNCHANGED <<upload_storage, engineered>>

(***************************************************************************)
(* Time, numbers and tables                                                *)
(***************************************************************************)
\* An instant is a number of ticks since 2024-01-01 00:00, a Monday.
TicksPerDay == 2

timedelta(days) == days * TicksPerDay
\* timedelta.days: whole days, rounded down.
DeltaDays(delta) == delta \div TicksPerDay
\* Timestamp.date(), as a day number.
DateOf(ts) == ts \div TicksPerDay
\* Timestamp.dayofweek: Monday is 0.
DayOfWeek(ts) == DateOf(ts) % 7
datetime(day, tick) == day * TicksPerDay + tick

RECURSIVE GCD(_, _)
GCD(a, b) == IF b = 0 THEN a ELSE GCD(b, a % b)

\* A float that is a quotient of integers, in lowest terms: <<numerator, denominator>>.
Frac(n, d) == LET g == GCD(n, d) IN IF g = 0 THEN <<n, d>> ELSE <<n \div g, d \div g>>
FracLeq(x, y) == x[1] * y[2] <= y[1] * x[2]

RECURSIVE SumSeq(_)
SumSeq(s) == IF s = <<>> THEN 0 ELSE Head(s) + SumSeq(Tail(s))

MaxOf(S) == CHOOSE x \in S : \A y \in S : y <= x
MinOf(S) == CHOOSE x \in S : \A y \in S : x <= y

\* sorted(set): ascending.
RECURSIVE SortedSeq(_)
SortedSeq(S) == IF S = {} THEN <<>> ELSE <<MinOf(S)>> \o SortedSeq(S \ {MinOf(S)})

Column(rows, field) == [i \in DOMAIN rows |-> rows[i][field]]

(***************************************************************************)
(* Engagement calculator (src/features/engagement_features.py)             *)
(***************************************************************************)
\* The defaults with the recency sentinel left at 0.
engagement_defaults_zero_recency ==
    [days_since_last_session |-> 0,
     session_frequency_7d |-> 0,
     session_frequency_30d |-> 0,
     avg_session_duration |-> <<0, 1>>,
     total_sessions |-> 0,
     streak_current |-> 0,
     streak_longest |-> 0,
     days_since_signup |-> 0,
     sessions_per_week |-> <<0, 1>>,
     weekend_activity_ratio |-> <<0, 1>>]

engagement_defaults ==
    [days_since_last_session |-> 180,
     session_frequency_7d |-> 0,
     session_frequency_30d |-> 0,
     avg_session_duration |-> Frac(0, 1),
     total_sessions |-> 0,
     streak_current |-> 0,
     streak_longest |-> 0,
     days_since_signup |-> 0,
     sessions_per_week |-> Frac(0, 1),
     weekend_activity_ratio |-> Frac(0, 1)]

\* The loop without the max() that follows it: the last run is never counted.
RECURSIVE longest_streak_loop_no_final_max(_, _, _, _)
longest_streak_loop_no_final_max(unique_dates, i, temp_streak, longest_streak) ==
    IF i > Len(unique_dates)
        THEN longest_streak
    ELSE IF unique_dates[i] - unique_dates[i - 1] = 1
        THEN longest_streak_loop_no_final_max(unique_dates, i + 1, temp_streak + 1,
                longest_streak)
    ELSE longest_streak_loop_no_final_max(unique_dates, i + 1, 1,
            IF longest_streak >= temp_streak THEN longest_streak ELSE temp_streak)

\* The loop over range(1, len(unique_dates)) from index i on, and the max()
\* that follows it.
RECURSIVE longest_streak_loop(_, _, _, _)
longest_streak_loop(unique_dates, i, temp_streak, longest_streak) ==
    IF i > Len(unique_dates)
        THEN IF longest_streak >= temp_streak THEN longest_streak ELSE temp_streak
    ELSE IF unique_dates[i] - unique_dates[i - 1] = 1
        THEN longest_streak_loop(unique_dates, i + 1, temp_streak + 1, longest_streak)
    ELSE longest_streak_loop(unique_dates, i + 1, 1,
            IF longest_streak >= temp_streak THEN longest_streak ELSE temp_streak)

\* while current_date in unique_dates: current_streak += 1; current_date -= 1 day
RECURSIVE current_streak_loop(_, _)
current_streak_loop(unique_dates, current_date) ==
    IF current_date \in Range(unique_dates)
        THEN 1 + current_streak_loop(unique_dates, current_date - 1)
        ELSE 0

\* The window test turned round: the sessions at or before the threshold.
session_frequency_before(sessions, as_of, days) ==
    Len(SelectSeq(sessions, LAMBDA e : e.event_timestamp <= as_of - timedelta(days)))

session_frequency(sessions, as_of, days) ==
    Len(SelectSeq(sessions, LAMBDA e : e.event_timestamp >= as_of - timedelta(days)))

\* The walk back started from the day before the as-of date.
current_streak_from_yesterday(unique_dates, as_of) ==
    current_streak_loop(unique_dates, DateOf(as_of) - 1)

current_streak(unique_dates, as_of) ==
    current_streak_loop(unique_dates, DateOf(as_of))

\* A duration cell that holds text, such as "n/a", stands in the tables as
\* this value; the durations that are numbers are never negative.
NON_NUMERIC_TEXT == -1

user_events_asof(df, user_id, as_of) ==
    SelectSeq(df.rows, LAMBDA e : e.user_id = user_id /\ e.event_timestamp <= as_of)

calculate_engagement_features(df, user_id, as_of) ==
    LET user_events == user_events_asof(df, user_id, as_of)
        sessions == SelectSeq(user_events, LAMBDA e : e.event_type = "app_open")
    IN  IF Len(user_events) = 0 THEN engagement_defaults
        ELSE IF Len(sessions) = 0 THEN engagement_defaults
        ELSE
        LET last_session == MaxOf(Range(Column(sessions, "event_timestamp")))
            dates == {DateOf(e.event_timestamp) : e \in Range(user_events)}
            unique_dates == SortedSeq({DateOf(e.event_timestamp) : e \in Range(sessions)})
            first_event == MinOf(Range(Column(user_events, "event_timestamp")))
            days_active == DeltaDays(as_of - first_event) + 1
            weekend == SelectSeq(sessions, LAMBDA e : DayOfWeek(e.event_timestamp) \in {5, 6})
        IN  [days_since_last_session |-> DeltaDays(as_of - last_session),
             session_frequency_7d |-> session_frequency(sessions, as_of, 7),
             session_frequency_30d |-> session_frequency(sessions, as_of, 30),
             avg_session_duration |->
                Frac(SumSeq(Column(user_events, "session_duration_seconds")),
                     60 * Cardinality(dates)),
             total_sessions |-> Len(sessions),
             streak_current |-> current_streak(unique_dates, as_of),
             streak_longest |-> longest_streak_loop(unique_dates, 2, 1, 0),
             days_since_signup |-> 0,
             sessions_per_week |->
                IF "signup_date" \in df.columns
                    THEN IF days_active >= 7
                            THEN Frac(Len(sessions) * 7, days_active)
                            ELSE Frac(Len(sessions), 1)
                    ELSE Frac(0, 1),
             weekend_activity_ratio |-> Frac(Len(weekend), Len(sessions))]

WithUserId(features, user_id) == [user_id |-> user_id] @@ features

\* calculate_engagement_features raises TypeError: the sum and the mean of
\* the durations of a user with sessions, one of them text.
calculate_engagement_features_raises(df, user_id, as_of) ==
    LET user_events == user_events_asof(df, user_id, as_of)
        sessions == SelectSeq(user_events, LAMBDA e : e.event_type = "app_open")
    IN  /\ Len(user_events) # 0
        /\ Len(sessions) # 0
        /\ \E e \in Range(user_events) : e.session_duration_seconds = NON_NUMERIC_TEXT

\* The loop of calculate_all_users_engagement has no handler: what one user's
\* calculation raises, the batch raises.
calculate_all_users_engagement_raises(df, user_ids, as_of) ==
    \E i \in DOMAIN user_ids : calculate_engagement_features_raises(df, user_ids[i], as_of)

calculate_all_users_engagement(df, user_ids, as_of) ==
    [i \in DOMAIN user_ids |->
        WithUserId(calculate_engagement_features(df, user_ids[i], as_of), user_ids[i])]

(***************************************************************************)
(* Upload-path feature engineering (api/feature_pipeline.py)               *)
(***************************************************************************)
\* NaN: the absent value.
NaN == << >>

\* str.contains('prayer|salah', case=False) and str.contains('quran',
\* case=False) on the event types the model uses.
ContainsPrayerOrSalah(event_type) == event_type \in {"prayer_log", "Salah"}
ContainsQuran(event_type) == event_type \in {"quran_read"}

RAMADAN_START == datetime(70, 0)
RAMADAN_END == datetime(99, 0)

\* The first occurrence of each value, in order: Series.unique().
RECURSIVE Unique(_)
Unique(s) ==
    IF s = <<>> THEN <<>>
    ELSE <<Head(s)>> \o Unique(SelectSeq(Tail(s), LAMBDA x : x # Head(s)))

\* A sequence of integers in ascending order: sort_values.
RECURSIVE SortInts(_)
SortInts(s) ==
    IF s = <<>> THEN <<>>
    ELSE LET m == MinOf(Range(s))
             k == CHOOSE i \in DOMAIN s : s[i] = m /\ \A j \in 1 .. (i - 1) : s[j] # m
         IN  <<m>> \o SortInts(SubSeq(s, 1, k - 1) \o SubSeq(s, k + 1, Len(s)))

\* Series.diff() without its leading NaN.
Diffs(s) == [i \in 1 .. (Len(s) - 1) |-> s[i + 1] - s[i]]

\* The square of Series.std() (ddof = 1) of numbers given in ticks, in days
\* squared; NaN when there are fewer than two numbers.
SampleVariance(d) ==
    LET m == Len(d)
        sum == SumSeq(d)
        squares == SumSeq([i \in DOMAIN d |-> d[i] * d[i]])
    IN  IF m < 2 THEN NaN
        ELSE Some(Frac(m * squares - sum * sum, m * (m - 1) * TicksPerDay * TicksPerDay))

days_since_last(events, as_of) ==
    IF Len(events) > 0
        THEN DeltaDays(as_of - MaxOf(Range(Column(events, "event_timestamp"))))
        ELSE 999

events_since(user_events, as_of, days) ==
    Len(SelectSeq(user_events, LAMBDA e : e.event_timestamp >= as_of - timedelta(days)))

\* activity_variance holds the square of the standard deviation the code
\* stores (NaN where it is NaN).
calculate_user_features(columns, user_events, as_of) ==
    LET timestamps == SortInts(Column(user_events, "event_timestamp"))
        prayer_events == SelectSeq(user_events, LAMBDA e : ContainsPrayerOrSalah(e.event_type))
        quran_events == SelectSeq(user_events, LAMBDA e : ContainsQuran(e.event_type))
        donations == SelectSeq(user_events, LAMBDA e : ~IsNone(e.donation_amount))
        ramadan_events ==
            SelectSeq(user_events, LAMBDA e :
                e.event_timestamp >= RAMADAN_START /\ e.event_timestamp <= RAMADAN_END)
    IN  [total_events |-> Len(user_events),
         days_since_last_activity |-> DeltaDays(as_of - timestamps[Len(timestamps)]),
         events_last_7d |-> events_since(user_events, as_of, 7),
         events_last_30d |-> events_since(user_events, as_of, 30),
         days_since_signup |-> DeltaDays(as_of - timestamps[1]),
         avg_session_duration |->
            IF "session_duration" \in columns
                THEN Frac(SumSeq(Column(user_events, "session_duration_seconds")),
                          60 * Len(user_events))
                ELSE Frac(0, 1),
         unique_event_types |-> Cardinality(Range(Column(user_events, "event_type"))),
         prayer_count |-> Len(prayer_events),
         days_since_last_prayer |-> days_since_last(prayer_events, as_of),
         quran_count |-> Len(quran_events),
         days_since_last_quran |-> days_since_last(quran_events, as_of),
         donation_count |->
            IF "donation_amount" \in columns THEN Len(donations) ELSE 0,
         total_donation_amount |->
            IF "donation_amount" \in columns
                THEN SumSeq([i \in DOMAIN donations |-> The(donations[i].donation_amount)])
                ELSE 0,
         days_since_last_donation |->
            IF "donation_amount" \in columns THEN days_since_last(donations, as_of) ELSE 999,
         activity_variance |->
            IF Len(user_events) > 1 THEN SampleVariance(Diffs(timestamps)) ELSE Some(Frac(0, 1)),
         ramadan_activity |-> Len(ramadan_events)]

\* _calculate_user_features raises TypeError: the mean of a session_duration
\* column that holds text.
calculate_user_features_raises(columns, user_events) ==
    /\ "session_duration" \in columns
    /\ \E e \in Range(user_events) : e.session_duration_seconds = NON_NUMERIC_TEXT

\* The loop of engineer_features has no handler either.
engineer_features_raises(df, as_of) ==
    LET filtered == SelectSeq(df.rows, LAMBDA e : e.event_timestamp <= as_of)
    IN  \E user_id \in Range(Column(filtered, "user_id")) :
            calculate_user_features_raises(df.columns,
                SelectSeq(filtered, LAMBDA e : e.user_id = user_id))

\* df['event_timestamp'] = pd.to_datetime(df['event_timestamp']), on the
\* table the caller passed: the column holds Timestamps from then on.
to_datetime_in_place(df) == [df EXCEPT !.event_timestamp_dtype = "datetime64[ns]"]

\* engineer_features reading the optional columns whether the table has them
\* or not.
engineer_features_assuming_columns(df, as_of) ==
    LET filtered == SelectSeq(df.rows, LAMBDA e : e.event_timestamp <= as_of)
        all_users == Unique(Column(filtered, "user_id"))
    IN  [i \in DOMAIN all_users |->
            WithUserId(
                calculate_user_features(df.columns \cup {"session_duration", "donation_amount"},
                    SelectSeq(filtered, LAMBDA e : e.user_id = all_users[i]), as_of),
                all_users[i])]

engineer_features(df, as_of) ==
    LET filtered == SelectSeq(df.rows, LAMBDA e : e.event_timestamp <= as_of)
        all_users == Unique(Column(filtered, "user_id"))
    IN  [i \in DOMAIN all_users |->
            WithUserId(
                calculate_user_features(df.columns,
                    SelectSeq(filtered, LAMBDA e : e.user_id = all_users[i]), as_of),
                all_users[i])]

(***************************************************************************)
(* Islamic-calendar calculator (src/features/islamic_calendar_features.py) *)
(***************************************************************************)
LAST_10_NIGHTS_START == datetime(89, 0)
EID_START == datetime(100, 0)
EID_END == datetime(102, 0)
MUHARRAM_START == datetime(188, 0)
MUHARRAM_END == datetime(218, 0)

\* Twice the prayer times in hours from midnight: 5.5, 12.5, 15.5, 18.5, 20.0.
PRAYER_TIMES_DOUBLED == {11, 25, 31, 37, 40}

is_during_ramadan(date) == RAMADAN_START <= date /\ date <= RAMADAN_END

is_friday(date) == DayOfWeek(date) = 4

\* abs(hour - prayer_time) <= 1.0 for the hour of the day of an instant, which
\* is 24 * (ts % TicksPerDay) / TicksPerDay.
is_prayer_time(ts) ==
    \E p \in PRAYER_TIMES_DOUBLED :
        LET d == 48 * (ts % TicksPerDay) - p * TicksPerDay
        IN  d <= 2 * TicksPerDay /\ -d <= 2 * TicksPerDay

Between(rows, start, end) ==
    SelectSeq(rows, LAMBDA e : e.event_timestamp >= start /\ e.event_timestamp <= end)

islamic_defaults ==
    [ramadan_engagement_ratio |-> Frac(0, 1),
     is_ramadan_convert |-> 0,
     days_since_ramadan |-> 0,
     last_10_nights_sessions |-> 0,
     jummah_participation_rate |-> Frac(0, 1),
     prayer_time_interaction_rate |-> Frac(0, 1),
     eid_participation |-> 0,
     muharram_participation |-> 0]

ramadan_engagement_ratio(sessions, as_of) ==
    LET ramadan_count == Len(Between(sessions, RAMADAN_START, RAMADAN_END))
        non_ramadan_count == Len(sessions) - ramadan_count
        ramadan_days == DeltaDays(RAMADAN_END - RAMADAN_START) + 1
        timestamps == Range(Column(sessions, "event_timestamp"))
        first_event == MinOf(timestamps)
        last_event == IF MaxOf(timestamps) <= as_of THEN MaxOf(timestamps) ELSE as_of
        total_days == DeltaDays(last_event - first_event) + 1
        non_ramadan_days ==
            total_days - (IF ramadan_days <= total_days THEN ramadan_days ELSE total_days)
    IN  IF non_ramadan_count > 0
            THEN IF non_ramadan_days > 0
                    THEN Frac(ramadan_count * non_ramadan_days,
                              ramadan_days * non_ramadan_count)
                    ELSE Frac(ramadan_count, ramadan_days)
        ELSE IF ramadan_count > 0 THEN Frac(10, 1)
        ELSE Frac(0, 1)

is_ramadan_convert(user_profile) ==
    IF IsNone(user_profile) THEN 0
    ELSE IF is_during_ramadan(The(user_profile).signup_date) THEN 1 ELSE 0

calculate_islamic_features(df, profiles, user_id, as_of) ==
    LET user_events == user_events_asof(df, user_id, as_of)
        matching == SelectSeq(profiles, LAMBDA p : p.user_id = user_id)
        user_profile == IF Len(matching) > 0 THEN Some(matching[1]) ELSE None
        sessions == SelectSeq(user_events, LAMBDA e : e.event_type = "app_open")
    IN  IF Len(user_events) = 0
            THEN [islamic_defaults EXCEPT
                    !.is_ramadan_convert = is_ramadan_convert(user_profile),
                    !.days_since_ramadan = DeltaDays(as_of - RAMADAN_END)]
        ELSE IF Len(sessions) = 0 THEN islamic_defaults
        ELSE
        LET first_activity == MinOf(Range(Column(sessions, "event_timestamp")))
            days_active == DeltaDays(as_of - first_activity) + 1
            total_fridays == days_active \div 7
            fridays_with_activity ==
                Cardinality({DateOf(e.event_timestamp) :
                                e \in {x \in Range(sessions) : is_friday(x.event_timestamp)}})
            days_with_prayer_interaction ==
                Cardinality({DateOf(e.event_timestamp) :
                                e \in {x \in Range(user_events) : is_prayer_time(x.event_timestamp)}})
        IN  [ramadan_engagement_ratio |-> ramadan_engagement_ratio(sessions, as_of),
             is_ramadan_convert |-> is_ramadan_convert(user_profile),
             days_since_ramadan |-> DeltaDays(as_of - RAMADAN_END),
             last_10_nights_sessions |->
                Len(Between(sessions, LAST_10_NIGHTS_START, RAMADAN_END)),
             jummah_participation_rate |->
                IF total_fridays > 0
                    THEN Frac(fridays_with_activity, total_fridays)
                    ELSE Frac(0, 1),
             prayer_time_interaction_rate |->
                IF days_active * 5 > 0
                    THEN Frac(days_with_prayer_interaction, days_active)
                    ELSE Frac(0, 1),
             eid_participation |->
                IF Len(Between(sessions, EID_START, EID_END)) > 0 THEN 1 ELSE 0,
             muharram_participation |->
                IF Len(Between(sessions, MUHARRAM_START, MUHARRAM_END)) > 0 THEN 1 ELSE 0]

calculate_all_users_islamic(df, profiles, user_ids, as_of) ==
    [i \in DOMAIN user_ids |->
        WithUserId(calculate_islamic_features(df, profiles, user_ids[i], as_of), user_ids[i])]

\* fast_features_with_progress.py: the Ramadan columns of user_agg, one row
\* per sampled user with events. The counts are of all the events of the
\* user, whatever their type and date; a user with no event outside Ramadan
\* gets 1 as non_ramadan_sessions.
fast_features_user_agg(df, profiles) ==
    LET user_ids == Column(profiles, "user_id")
        sample_events == SelectSeq(df.rows, LAMBDA e : e.user_id \in Range(user_ids))
        with_events == SelectSeq(user_ids, LAMBDA u : u \in Range(Column(sample_events, "user_id")))
    IN  [i \in DOMAIN with_events |->
            LET user_events == SelectSeq(sample_events, LAMBDA e : e.user_id = with_events[i])
                ramadan_sessions == Len(Between(user_events, RAMADAN_START, RAMADAN_END))
                outside == Len(user_events) - ramadan_sessions
                non_ramadan_sessions == IF outside = 0 THEN 1 ELSE outside
            IN  [user_id |-> with_events[i],
                 total_events |-> Len(user_events),
                 ramadan_sessions |-> ramadan_sessions,
                 non_ramadan_sessions |-> non_ramadan_sessions,
                 ramadan_engagement_ratio |-> Frac(ramadan_sessions, non_ramadan_sessions)]]

(***************************************************************************)
(* Content calculator (src/features/content_features.py)                   *)
(***************************************************************************)
\* The event types in the order str comparison sorts them.
SORTED_EVENT_TYPES ==
    <<"app_open", "donation", "dua_view", "fiqh_content", "hadith_read", "lecture_view",
      "none", "prayer_log", "quran_read", "seerah_read", "tafsir_read">>

CountType(rows, event_type) == Len(SelectSeq(rows, LAMBDA e : e.event_type = event_type))

\* Series.mode()[0]: the most common value, the first in sorted order of those.
ModeOfTypes(rows) ==
    LET most == MaxOf({CountType(rows, t) : t \in Range(SORTED_EVENT_TYPES)})
        modes == SelectSeq(SORTED_EVENT_TYPES, LAMBDA t : CountType(rows, t) = most)
    IN  modes[1]

content_defaults ==
    [quran_reading_pct |-> Frac(0, 1),
     hadith_engagement_pct |-> Frac(0, 1),
     lecture_watch_minutes |-> Frac(0, 1),
     fiqh_content_views |-> 0,
     seerah_content_views |-> 0,
     tafsir_engagement |-> 0,
     topic_diversity_score |-> 0,
     favorite_content_type |-> "none",
     content_completion_rate |-> Frac(0, 1),
     bookmark_count |-> 0]

\* draw: what np.random.exponential returns, as an integer.
calculate_content_features(df, user_id, draw) ==
    LET user_events == SelectSeq(df.rows, LAMBDA e : e.user_id = user_id)
        content_events == SelectSeq(user_events, LAMBDA e : e.event_type # "app_open")
        total_events == Len(content_events)
        lecture_events == SelectSeq(content_events, LAMBDA e : e.event_type = "lecture_view")
        tafsir_events ==
            SelectSeq(content_events,
                LAMBDA e : e.event_type = "tafsir_read" \/ e.content_category = "Tafsir")
        long_sessions == SelectSeq(content_events, LAMBDA e : e.session_duration_seconds > 300)
    IN  IF Len(user_events) = 0 THEN content_defaults
        ELSE IF total_events = 0 THEN content_defaults
        ELSE
            [quran_reading_pct |-> Frac(CountType(content_events, "quran_read"), total_events),
             hadith_engagement_pct |->
                Frac(CountType(content_events, "hadith_read"), total_events),
             lecture_watch_minutes |->
                Frac(SumSeq(Column(lecture_events, "session_duration_seconds")), 60),
             fiqh_content_views |-> CountType(content_events, "fiqh_content"),
             seerah_content_views |-> CountType(content_events, "seerah_read"),
             tafsir_engagement |-> Len(tafsir_events),
             topic_diversity_score |->
                Cardinality(Range(Column(content_events, "event_type"))),
             favorite_content_type |-> ModeOfTypes(content_events),
             content_completion_rate |-> Frac(Len(long_sessions), total_events),
             bookmark_count |->
                IF total_events > 100 THEN (IF draw <= 100 THEN draw ELSE 100)
                ELSE IF total_events > 20 THEN draw
                ELSE 0]

\* The topic diversity simulated, like the bookmark count, from the generator.
calculate_all_users_content_simulated_diversity(df, user_ids, draw) ==
    [i \in DOMAIN user_ids |->
        WithUserId(
            [calculate_content_features(df, user_ids[i], draw) EXCEPT
                !.topic_diversity_score = draw],
            user_ids[i])]

calculate_all_users_content(df, user_ids, draw) ==
    [i \in DOMAIN user_ids |->
        WithUserId(calculate_content_features(df, user_ids[i], draw), user_ids[i])]

(***************************************************************************)
(* Social features and feature assembly                                    *)
(* (src/features/feature_engineering.py)                                   *)
(***************************************************************************)
Min(a, b) == IF a <= b THEN a ELSE b

\* draw: what the generator seeded with hash(user_id) returns, before it is
\* scaled to the range asked for.
calculate_social_features(user_id, total_events, draw) ==
    LET engaged == total_events > 20
        high == Min(31, total_events + 1)
    IN  [friends_count |-> IF engaged THEN Min(500, draw) ELSE 0,
         shares_sent |-> IF engaged THEN Min(200, draw) ELSE 0,
         comments_made |-> IF engaged THEN Min(300, draw) ELSE 0,
         days_since_last_social |-> draw % high]

\* events_df.groupby('user_id').size().get(user_id, 0)
event_counts(df, user_id) == Len(SelectSeq(df.rows, LAMBDA e : e.user_id = user_id))

ENGAGEMENT_COLUMNS ==
    <<"days_since_last_session", "session_frequency_7d", "session_frequency_30d",
      "avg_session_duration", "total_sessions", "streak_current", "streak_longest",
      "days_since_signup", "sessions_per_week", "weekend_activity_ratio", "user_id">>
ISLAMIC_COLUMNS ==
    <<"ramadan_engagement_ratio", "is_ramadan_convert", "days_since_ramadan",
      "last_10_nights_sessions", "jummah_participation_rate",
      "prayer_time_interaction_rate", "eid_participation", "muharram_participation",
      "user_id">>
CONTENT_COLUMNS ==
    <<"quran_reading_pct", "hadith_engagement_pct", "lecture_watch_minutes",
      "fiqh_content_views", "seerah_content_views", "tafsir_engagement",
      "topic_diversity_score", "favorite_content_type", "content_completion_rate",
      "bookmark_count", "user_id">>
SOCIAL_COLUMNS ==
    <<"friends_count", "shares_sent", "comments_made", "days_since_last_social", "user_id">>
PROFILE_COLUMNS == <<"user_id", "signup_date", "subscription_type", "location", "is_churned">>

\* pd.DataFrame(list of dicts): the columns in the dicts' key order; each row
\* holds its cells and the set of its columns that are NaN.
DataFrame(columns, records) ==
    [columns |-> columns,
     rows |-> [i \in DOMAIN records |-> [cells |-> records[i], nan |-> {}]]]

Restrict(f, S) == [x \in S |-> f[x]]

\* left.merge(right, on='user_id', how='left'): every left row, once per right
\* row with its user_id, in the left's order; with NaN in the right's columns
\* when there is none.
RECURSIVE merge_rows(_, _, _)
merge_rows(left_rows, right_rows, right_only) ==
    IF left_rows = <<>> THEN <<>>
    ELSE LET l == Head(left_rows)
             matches == SelectSeq(right_rows, LAMBDA r : r.cells.user_id = l.cells.user_id)
             joined ==
                IF Len(matches) = 0
                    THEN <<[cells |-> l.cells @@ [c \in right_only |-> 0],
                            nan |-> l.nan \cup right_only]>>
                    ELSE [j \in DOMAIN matches |->
                            [cells |-> l.cells @@ Restrict(matches[j].cells, right_only),
                             nan |-> l.nan \cup (matches[j].nan \cap right_only)]]
         IN  joined \o merge_rows(Tail(left_rows), right_rows, right_only)

merge_left(left, right) ==
    LET right_only == SelectSeq(right.columns, LAMBDA c : c \notin Range(left.columns))
    IN  [columns |-> left.columns \o right_only,
         rows |-> merge_rows(left.rows, right.rows, Range(right_only))]

\* The values the categorical columns take, in sorted order, with the names
\* of their indicator columns: prefix + '_' + value.
DUMMY_NAMES ==
    <<<<"content", "dua_view", "content_dua_view">>,
      <<"content", "fiqh_content", "content_fiqh_content">>,
      <<"content", "hadith_read", "content_hadith_read">>,
      <<"content", "lecture_view", "content_lecture_view">>,
      <<"content", "none", "content_none">>,
      <<"content", "prayer_log", "content_prayer_log">>,
      <<"content", "quran_read", "content_quran_read">>,
      <<"content", "seerah_read", "content_seerah_read">>,
      <<"content", "tafsir_read", "content_tafsir_read">>,
      <<"subscription", "basic", "subscription_basic">>,
      <<"subscription", "free", "subscription_free">>,
      <<"subscription", "premium", "subscription_premium">>,
      <<"location", "Chicago IL", "location_Chicago IL">>,
      <<"location", "Dallas TX", "location_Dallas TX">>,
      <<"location", "Houston TX", "location_Houston TX">>>>

\* The values a column takes in the table, NaN left out.
Observed(frame, column) ==
    {frame.rows[i].cells[column] :
        i \in {j \in DOMAIN frame.rows : column \notin frame.rows[j].nan}}

\* get_dummies with drop_first=True.
get_dummies_drop_first(frame, column, prefix) ==
    LET observed == Observed(frame, column)
        categories ==
            SelectSeq(DUMMY_NAMES, LAMBDA d : d[1] = prefix /\ d[2] \in observed)
        kept == IF categories = <<>> THEN <<>> ELSE Tail(categories)
    IN  [columns |-> [k \in DOMAIN kept |-> kept[k][3]],
         rows |->
            [i \in DOMAIN frame.rows |->
                [cells |->
                    [name \in {kept[k][3] : k \in DOMAIN kept} |->
                        IF \E k \in DOMAIN kept :
                              /\ kept[k][3] = name
                              /\ column \notin frame.rows[i].nan
                              /\ kept[k][2] = frame.rows[i].cells[column]
                            THEN 1 ELSE 0],
                 nan |-> {}]]]

\* pd.get_dummies(frame[column], prefix=prefix): one indicator column per
\* observed value, in sorted order; a row holds 1 in the column of its value.
get_dummies(frame, column, prefix) ==
    LET observed == Observed(frame, column)
        categories ==
            SelectSeq(DUMMY_NAMES, LAMBDA d : d[1] = prefix /\ d[2] \in observed)
    IN  [columns |-> [k \in DOMAIN categories |-> categories[k][3]],
         rows |->
            [i \in DOMAIN frame.rows |->
                [cells |->
                    [name \in {categories[k][3] : k \in DOMAIN categories} |->
                        IF \E k \in DOMAIN categories :
                              /\ categories[k][3] = name
                              /\ column \notin frame.rows[i].nan
                              /\ categories[k][2] = frame.rows[i].cells[column]
                            THEN 1 ELSE 0],
                 nan |-> {}]]]

\* pd.concat([frame, dummies], axis=1)
concat_columns(frame, dummies) ==
    [columns |-> frame.columns \o dummies.columns,
     rows |->
        [i \in DOMAIN frame.rows |->
            [cells |-> frame.rows[i].cells @@ dummies.rows[i].cells,
             nan |-> frame.rows[i].nan]]]

drop_columns(frame, dropped) ==
    LET kept == SelectSeq(frame.columns, LAMBDA c : c \notin dropped)
    IN  [columns |-> kept,
         rows |->
            [i \in DOMAIN frame.rows |->
                [cells |-> Restrict(frame.rows[i].cells, Range(kept)),
                 nan |-> frame.rows[i].nan \ dropped]]]

fillna_zero(frame) ==
    [columns |-> frame.columns,
     rows |->
        [i \in DOMAIN frame.rows |->
            [cells |->
                [c \in DOMAIN frame.rows[i].cells |->
                    IF c \in frame.rows[i].nan THEN 0 ELSE frame.rows[i].cells[c]],
             nan |-> {}]]]

\* The user list taken from the event table instead of the profiles.
all_users_from_events(profiles, df) == Unique(Column(df.rows, "user_id"))

all_users_of(profiles, df) == Column(profiles, "user_id")

with_days_since_signup(frame, as_of) ==
    [columns |-> frame.columns,
     rows |->
        [i \in DOMAIN frame.rows |->
            IF "signup_date" \in frame.rows[i].nan
                THEN [cells |-> [frame.rows[i].cells EXCEPT !.days_since_signup = 0],
                      nan |-> frame.rows[i].nan \cup {"days_since_signup"}]
                ELSE [cells |->
                        [frame.rows[i].cells EXCEPT
                            !.days_since_signup =
                                DeltaDays(as_of - frame.rows[i].cells.signup_date)],
                      nan |-> frame.rows[i].nan \ {"days_since_signup"}]]]

engineer_all_features(profiles, df, as_of, draw) ==
    LET all_users == all_users_of(profiles, df)
        engagement_features_df ==
            DataFrame(ENGAGEMENT_COLUMNS, calculate_all_users_engagement(df, all_users, as_of))
        islamic_features ==
            DataFrame(ISLAMIC_COLUMNS,
                      calculate_all_users_islamic(df, profiles, all_users, as_of))
        content_features ==
            DataFrame(CONTENT_COLUMNS, calculate_all_users_content(df, all_users, draw))
        social_features ==
            DataFrame(SOCIAL_COLUMNS,
                [i \in DOMAIN all_users |->
                    WithUserId(
                        calculate_social_features(all_users[i],
                            event_counts(df, all_users[i]), draw),
                        all_users[i])])
        merged ==
            merge_left(
                merge_left(
                    merge_left(merge_left(engagement_features_df, islamic_features),
                               content_features),
                    social_features),
                DataFrame(PROFILE_COLUMNS, profiles))
        dated == with_days_since_signup(merged, as_of)
        with_content ==
            concat_columns(dated, get_dummies(dated, "favorite_content_type", "content"))
        with_subscription ==
            concat_columns(with_content,
                get_dummies(with_content, "subscription_type", "subscription"))
        with_location ==
            concat_columns(with_subscription,
                get_dummies(with_subscription, "location", "location"))
        dropped ==
            drop_columns(with_location,
                {"favorite_content_type", "subscription_type", "location", "signup_date"})
    IN  fillna_zero(dropped)

(***************************************************************************)
(* Inference: the batch prediction endpoint (api/main.py, api/models.py)   *)
(***************************************************************************)
\* The fields of the request schema UserFeatures, all of them required.
USER_FEATURES_FIELDS ==
    <<"user_id", "days_since_last_session", "session_frequency_7d", "session_frequency_30d",
      "avg_session_duration", "total_sessions", "streak_current", "streak_longest",
      "days_since_signup", "sessions_per_week", "weekend_activity_ratio",
      "ramadan_engagement_ratio", "is_ramadan_convert", "days_since_ramadan",
      "last_10_nights_sessions", "jummah_participation_rate",
      "prayer_time_interaction_rate", "eid_participation", "muharram_participation",
      "quran_reading_pct", "hadith_engagement_pct", "lecture_watch_minutes",
      "fiqh_content_views", "seerah_content_views", "tafsir_engagement",
      "topic_diversity_score", "content_completion_rate", "bookmark_count",
      "friends_count", "shares_sent", "comments_made", "days_since_last_social">>

\* A posted JSON object is the sequence of its <<key, value>> members.
Keys(body) == {body[i][1] : i \in DOMAIN body}
ValueOf(body, key) == body[CHOOSE i \in DOMAIN body : body[i][1] = key][2]

\* Parsing a posted user into UserFeatures: every declared field is required,
\* and members the schema does not declare are ignored. The result is
\* user.dict(): the declared fields.
UserFeatures(body) ==
    IF Range(USER_FEATURES_FIELDS) \subseteq Keys(body)
        THEN Some([f \in Range(USER_FEATURES_FIELDS) |-> ValueOf(body, f)])
        ELSE None

\* The feature vector of one parsed user, user_id popped.
feature_vector(feature_cols, user_dict) ==
    [i \in DOMAIN feature_cols |->
        IF feature_cols[i] \in DOMAIN user_dict \ {"user_id"}
            THEN user_dict[feature_cols[i]]
            ELSE 0]

\* The outcome of predict_batch: an error status, or the feature vectors
\* handed to the booster, one per user.
predict_batch(loaded, config, users) ==
    IF IsNone(loaded) THEN [status_code |-> 503, vectors |-> << >>]
    ELSE IF IsNone(config) THEN [status_code |-> 503, vectors |-> << >>]
    ELSE IF \E u \in DOMAIN users : IsNone(UserFeatures(users[u]))
        THEN [status_code |-> 422, vectors |-> << >>]
    ELSE [status_code |-> 200,
          vectors |->
            [u \in DOMAIN users |->
                feature_vector(The(config).feature_columns, The(UserFeatures(users[u])))]]

(***************************************************************************)
(* Telco customer table: the cleaner (src/data/data_cleaner.py), the       *)
(* tenure calculator (src/features/tenure_features.py) and the script that *)
(* maps the customers onto the feature schema (transform_kaggle_data.py)   *)
(***************************************************************************)
\* The text of a cell is the sequence of its characters.
DIGITS == <<"0", "1", "2", "3", "4", "5", "6", "7", "8", "9">>
DigitValue(c) == (CHOOSE i \in DOMAIN DIGITS : DIGITS[i] = c) - 1

RECURSIVE lstrip(_)
lstrip(text) == IF text # << >> /\ Head(text) = " " THEN lstrip(Tail(text)) ELSE text

RECURSIVE rstrip(_)
rstrip(text) ==
    IF text # << >> /\ text[Len(text)] = " "
        THEN rstrip(SubSeq(text, 1, Len(text) - 1))
        ELSE text

RECURSIVE DigitsValue(_)
DigitsValue(text) ==
    IF text = << >>
        THEN 0
        ELSE 10 * DigitsValue(SubSeq(text, 1, Len(text) - 1)) + DigitValue(text[Len(text)])

RECURSIVE Power10(_)
Power10(k) == IF k = 0 THEN 1 ELSE 10 * Power10(k - 1)

\* pd.to_numeric(errors='coerce') on one cell of text: the decimal number the
\* text spells, NaN for text that spells none.
to_numeric(cell) ==
    LET text == rstrip(lstrip(cell))
        dots == {i \in DOMAIN text : text[i] = "."}
        digits == SelectSeq(text, LAMBDA c : c \in Range(DIGITS))
    IN  IF \/ digits = << >>
           \/ Cardinality(dots) > 1
           \/ \E i \in DOMAIN text : text[i] \notin Range(DIGITS) \cup {"."}
            THEN NaN
            ELSE LET decimals == IF dots = {} THEN 0
                                 ELSE Len(text) - (CHOOSE i \in dots : TRUE)
                 IN  Some(Frac(DigitsValue(digits), Power10(decimals)))

\* df_clean[col].replace('No internet service', 'No')
replace_no_internet_service(value) == IF value = "No internet service" THEN "No" ELSE value

\* clean_telco_data keeping the rows whatever their TotalCharges.
clean_telco_data_keep_rows(df) ==
    [i \in DOMAIN df |->
        [df[i] EXCEPT !.TotalCharges = to_numeric(df[i].TotalCharges),
                      !.StreamingTV = replace_no_internet_service(df[i].StreamingTV)]]

\* clean_telco_data: works on a copy; TotalCharges coerced to a number, the
\* rows it is NaN on dropped, the service columns normalised.
clean_telco_data(df) ==
    LET coerced == [i \in DOMAIN df |->
                       [df[i] EXCEPT !.TotalCharges = to_numeric(df[i].TotalCharges)]]
        dropped == SelectSeq(coerced, LAMBDA row : row.TotalCharges # NaN)
    IN  [i \in DOMAIN dropped |->
            [dropped[i] EXCEPT
                !.StreamingTV = replace_no_internet_service(dropped[i].StreamingTV)]]

\* The product and the quotient of two floats.
FracTimes(x, y) == Frac(x[1] * y[1], x[2] * y[2])
FracDiv(x, y) == Frac(x[1] * y[2], x[2] * y[1])

\* engineer_tenure_features: works on a copy and adds its columns.
engineer_tenure_features(df) ==
    [i \in DOMAIN df |->
        LET row == df[i]
            denominator == FracTimes(row.MonthlyCharges, Frac(row.tenure, 1))
        IN  [customerID |-> row.customerID,
             tenure |-> row.tenure,
             MonthlyCharges |-> row.MonthlyCharges,
             TotalCharges |-> row.TotalCharges,
             StreamingTV |-> row.StreamingTV,
             Churn |-> row.Churn,
             tenure_months |-> row.tenure,
             is_new_customer |-> IF row.tenure <= 6 THEN 1 ELSE 0,
             customer_lifetime_ratio |->
                 IF denominator[1] > 0
                     THEN IF row.TotalCharges = NaN
                              THEN NaN
                              ELSE Some(FracDiv(The(row.TotalCharges), denominator))
                     ELSE Some(Frac(0, 1)),
             avg_monthly_spend |->
                 IF row.tenure > 0
                     THEN IF row.TotalCharges = NaN
                              THEN NaN
                              ELSE Some(FracDiv(The(row.TotalCharges), Frac(row.tenure, 1)))
                     ELSE Some(row.MonthlyCharges)]]

\* get_churn_segment with the third rule tried before the second.
get_churn_segment_medium_first(row) ==
    IF /\ row.is_monthly_contract = 1
       /\ row.tenure_months < 12
       /\ row.internet_type = "Fiber optic"
        THEN "Very High"
    ELSE IF row.is_monthly_contract = 1 \/ row.tenure_months < 12
        THEN "Medium"
    ELSE IF /\ row.is_monthly_contract = 1
            /\ (row.tenure_months < 24 \/ row.PaymentMethod = "Electronic check")
        THEN "High"
    ELSE "Low"

\* get_churn_segment: the if/elif cascade of engineer_composite_features.
get_churn_segment(row) ==
    IF /\ row.is_monthly_contract = 1
       /\ row.tenure_months < 12
       /\ row.internet_type = "Fiber optic"
        THEN "Very High"
    ELSE IF /\ row.is_monthly_contract = 1
            /\ (row.tenure_months < 24 \/ row.PaymentMethod = "Electronic check")
        THEN "High"
    ELSE IF row.is_monthly_contract = 1 \/ row.tenure_months < 12
        THEN "Medium"
    ELSE "Low"

\* The columns the cascade reads, as the billing, tenure and service
\* calculators derive them from the customer's row, and the segment
\* engineer_composite_features adds.
engineer_composite_features(df) ==
    [i \in DOMAIN df |->
        LET row == [is_monthly_contract |-> IF df[i].Contract = "Month-to-month" THEN 1 ELSE 0,
                    tenure_months |-> df[i].tenure,
                    internet_type |-> df[i].InternetService,
                    PaymentMethod |-> df[i].PaymentMethod]
        IN  [customerID |-> df[i].customerID,
             Contract |-> df[i].Contract,
             tenure |-> df[i].tenure,
             InternetService |-> df[i].InternetService,
             PaymentMethod |-> df[i].PaymentMethod,
             is_monthly_contract |-> row.is_monthly_contract,
             tenure_months |-> row.tenure_months,
             internet_type |-> row.internet_type,
             churn_likelihood_segment |-> get_churn_segment(row)]]

\* np.random.randint(low, high) from what the generator returned.
randint(low, high, draw) == low + (draw % (high - low))

\* transform_kaggle_data.py on the customers, draws[i] being what the
\* generator returned for row i: for the churned range of
\* days_since_last_session, for its active range, and for streak_current.
transform_kaggle_data(df, draws) ==
    [i \in DOMAIN df |->
        LET is_churned == IF df[i].Churn = "Yes" THEN 1 ELSE 0
        IN  [user_id |-> df[i].customerID,
             is_churned |-> is_churned,
             days_since_signup |-> df[i].tenure * 30,
             days_since_last_session |->
                 IF is_churned = 1
                     THEN randint(15, 90, draws[i][1])
                     ELSE randint(0, 7, draws[i][2]),
             streak_current |->
                 IF is_churned = 1 THEN 0 ELSE randint(1, 30, draws[i][3])]]

(***************************************************************************)
(* Sample inputs of the feature calculators                                *)
(***************************************************************************)
UserIds == <<"user-000001", "user-000002", "user-000003">>
UserRank(u) == CHOOSE i \in DOMAIN UserIds : UserIds[i] = u

\* The most rows an event table of the model has.
MaxEvents == 3

\* engineer_all_features' default as-of date, 2024-11-10, as a day number.
AS_OF_DAY == 314

BATCH_COLUMNS ==
    {"user_id", "event_timestamp", "event_type", "session_duration_seconds", "content_category"}

\* What the generator gives an event of each type: a duration in seconds and a
\* content category.
TypeDuration(event_type) ==
    CASE event_type = "app_open" -> 0
      [] event_type = "quran_read" -> 600
      [] event_type = "lecture_view" -> 1500
      [] event_type = "prayer_log" -> 30
      [] OTHER -> 200

TypeCategory(event_type) ==
    CASE event_type = "app_open" -> "None"
      [] event_type = "quran_read" -> "Quran"
      [] event_type = "hadith_read" -> "Hadith"
      [] event_type = "lecture_view" -> "Tafsir"
      [] event_type = "prayer_log" -> "Prayer"
      [] OTHER -> "General"

EventRow(user_id, ts, event_type) ==
    [user_id |-> user_id, event_timestamp |-> ts, event_type |-> event_type,
     session_duration_seconds |-> TypeDuration(event_type),
     content_category |-> TypeCategory(event_type),
     donation_amount |-> IF event_type = "donation" THEN Some(25) ELSE None]

\* Event tables are listed by user and time, as the generator writes them.
IsSorted(rows) ==
    \A i \in 1 .. (Len(rows) - 1) :
        \/ UserRank(rows[i].user_id) < UserRank(rows[i + 1].user_id)
        \/ /\ rows[i].user_id = rows[i + 1].user_id
           /\ rows[i].event_timestamp <= rows[i + 1].event_timestamp

EventTables(alphabet) ==
    {rows \in UNION {[1 .. n -> alphabet] : n \in 0 .. MaxEvents} : IsSorted(rows)}

AsOfDates == {datetime(AS_OF_DAY, 0), datetime(AS_OF_DAY, TicksPerDay - 1)}

\* Days on both sides of the 30-day and 7-day windows, two runs of days, the
\* as-of date and the day after it; EngagementEvents adds sessions ten and
\* five days before the as-of date.
EngagementDays ==
    {AS_OF_DAY - 30, AS_OF_DAY - 8, AS_OF_DAY - 7, AS_OF_DAY - 2, AS_OF_DAY - 1, AS_OF_DAY,
     AS_OF_DAY + 1}

EngagementEvents ==
    {EventRow(UserIds[1], datetime(d, t), ty) :
        d \in EngagementDays, t \in {0, TicksPerDay - 1}, ty \in {"app_open", "quran_read"}}
    \cup {EventRow(UserIds[2], datetime(AS_OF_DAY - 1, 0), "app_open"),
          EventRow(UserIds[2], datetime(AS_OF_DAY, 0), "quran_read"),
          [EventRow(UserIds[2], datetime(AS_OF_DAY - 1, 0), "app_open")
              EXCEPT !.session_duration_seconds = NON_NUMERIC_TEXT]}
    \cup {EventRow(UserIds[1], datetime(AS_OF_DAY - 10, 0), "app_open"),
          EventRow(UserIds[1], datetime(AS_OF_DAY - 10, 0), "quran_read"),
          EventRow(UserIds[1], datetime(AS_OF_DAY - 5, 0), "app_open")}

\* The most users a profile list of the model has, and the largest value the
\* random generator returns.
MaxUsers == 2
MaxDraw == 1

Profile(user_id, signup_day, subscription_type, location, is_churned) ==
    [user_id |-> user_id, signup_date |-> datetime(signup_day, 0),
     subscription_type |-> subscription_type, location |-> location,
     is_churned |-> is_churned]

\* A user who signed up during Ramadan and two who signed up after it.
ProfilesOf(user_id) ==
    {Profile(user_id, 80, "free", "Chicago IL", 0),
     Profile(user_id, 200, "premium", "Houston TX", 1),
     Profile(user_id, 200, "free", "Houston TX", 0)}

\* Profile lists hold one row per user: user_id is the key of the profiles.
ProfileLists ==
    {profiles \in
        UNION {[1 .. n -> UNION {ProfilesOf(UserIds[u]) : u \in DOMAIN UserIds}] :
                  n \in 1 .. MaxUsers} :
        \A i \in 1 .. (Len(profiles) - 1) :
            UserRank(profiles[i].user_id) < UserRank(profiles[i + 1].user_id)}

\* Events of the first two users on both sides of the as-of date.
BatchEvents ==
    {EventRow(UserIds[1], datetime(d, 0), ty) :
        d \in {AS_OF_DAY - 1, AS_OF_DAY + 1}, ty \in {"app_open", "quran_read", "lecture_view"}}
    \cup {EventRow(UserIds[2], datetime(AS_OF_DAY - 1, 0), "app_open"),
          EventRow(UserIds[2], datetime(AS_OF_DAY - 1, 0), "lecture_view"),
          EventRow(UserIds[2], datetime(AS_OF_DAY + 1, 0), "quran_read")}

\* Events of the calendar windows: a session and a reading in Ramadan,
\* sessions at the start and later on the last day of Eid and of Muharram, on
\* the day after Eid, and on the last two Fridays before the as-of date.
IslamicEvents ==
    {EventRow(UserIds[1], datetime(80, 0), "app_open"),
     EventRow(UserIds[1], datetime(80, 0), "quran_read"),
     EventRow(UserIds[1], datetime(102, 0), "app_open"),
     EventRow(UserIds[1], datetime(102, TicksPerDay - 1), "app_open"),
     EventRow(UserIds[1], datetime(103, 0), "app_open"),
     EventRow(UserIds[1], datetime(218, 0), "app_open"),
     EventRow(UserIds[1], datetime(218, TicksPerDay - 1), "app_open"),
     EventRow(UserIds[1], datetime(AS_OF_DAY - 9, 0), "app_open"),
     EventRow(UserIds[1], datetime(AS_OF_DAY - 2, 0), "app_open"),
     EventRow(UserIds[1], datetime(AS_OF_DAY - 2, 0), "quran_read"),
     EventRow(UserIds[2], datetime(80, 0), "app_open"),
     EventRow(UserIds[2], datetime(AS_OF_DAY + 1, 0), "app_open")}

\* The profile of the first user, signed up during Ramadan or after it; the
\* other users have none.
IslamicProfileLists ==
    {<<Profile(UserIds[1], 80, "free", "Chicago IL", 0)>>,
     <<Profile(UserIds[1], 200, "free", "Houston TX", 0)>>}

\* Uploaded events of two users: readings, which last ten minutes, donations,
\* and an event whose duration cell holds text.
UploadEvents ==
    {EventRow(UserIds[1], datetime(d, 0), ty) :
        d \in {AS_OF_DAY - 1, AS_OF_DAY}, ty \in {"quran_read", "donation"}}
    \cup {EventRow(UserIds[2], datetime(AS_OF_DAY - 1, 0), "quran_read"),
          EventRow(UserIds[2], datetime(AS_OF_DAY, 0), "donation"),
          [EventRow(UserIds[2], datetime(AS_OF_DAY, 0), "app_open")
              EXCEPT !.session_duration_seconds = NON_NUMERIC_TEXT]}

\* The column sets of an upload: the required columns and any of the two
\* optional columns the features read.
UploadColumnSets ==
    {Range(REQUIRED_COLUMNS) \cup optional : optional \in SUBSET {"session_duration", "donation_amount"}}

\* The most columns a manifest of the model lists.
MaxColumns == 3

\* Manifests over two numeric features and two indicator columns, each
\* column listed once.
ManifestColumns == {"total_sessions", "streak_current", "subscription_premium", "content_none"}

Manifests ==
    {[feature_columns |-> cols, target_column |-> "is_churned", num_features |-> Len(cols)] :
        cols \in {c \in UNION {[1 .. n -> ManifestColumns] : n \in 1 .. MaxColumns} :
                    \A i, j \in DOMAIN c : c[i] = c[j] => i = j}}

Reverse(seq) == [i \in DOMAIN seq |-> seq[Len(seq) + 1 - i]]

\* A posted user: every field of the schema, with total_sessions and
\* streak_current as given, followed by the extra members.
PostedUser(user_id, total_sessions, streak_current, extra) ==
    [i \in DOMAIN USER_FEATURES_FIELDS |->
        <<USER_FEATURES_FIELDS[i],
          CASE USER_FEATURES_FIELDS[i] = "user_id" -> user_id
            [] USER_FEATURES_FIELDS[i] = "total_sessions" -> total_sessions
            [] USER_FEATURES_FIELDS[i] = "streak_current" -> streak_current
            [] OTHER -> 2>>] \o extra

\* Posted users in the schema's field order and in the reverse order, with
\* and without indicator members, and with a required field left out.
PostedUsers ==
    LET complete ==
            {PostedUser(UserIds[1], t, c, extra) :
                t \in {0, 5}, c \in {0, 1},
                extra \in {<< >>, <<<<"subscription_premium", 1>>>>,
                           <<<<"content_none", 1>>, <<"subscription_premium", 0>>>>}}
    IN  complete
        \cup {Reverse(body) : body \in complete}
        \cup {SelectSeq(body, LAMBDA member : member[1] # "streak_current") : body \in complete}

\* The most rows a customer table of the model has.
MaxCustomers == 2

CustomerIds == <<"7590-VHVEG", "5575-GNVDE">>

\* The texts TotalCharges arrives as: a blank, as for the customers of
\* tenure 0, and two amounts.
TotalChargesTexts == {<<" ">>, <<"5", "9", ".", "7">>, <<"1", "0", "8">>}

CustomerRows(customerID) ==
    [customerID : {customerID},
     tenure : {0, 2},
     MonthlyCharges : {Frac(2985, 100)},
     TotalCharges : TotalChargesTexts,
     StreamingTV : {"Yes", "No internet service"},
     Churn : {"Yes", "No"}]

CustomerTables ==
    UNION {{df \in [1 .. n -> UNION {CustomerRows(CustomerIds[i]) : i \in 1 .. n}] :
               \A i \in 1 .. n : df[i].customerID = CustomerIds[i]} : n \in 0 .. MaxCustomers}

\* Customers on both sides of the tenures the segment rules test, with every
\* contract and internet service and two payment methods.
SegmentRows(customerID) ==
    [customerID : {customerID},
     Contract : {"Month-to-month", "One year", "Two year"},
     tenure : {0, 11, 12, 23, 24, 30},
     InternetService : {"Fiber optic", "DSL", "No"},
     PaymentMethod : {"Electronic check", "Mailed check"}]

SegmentTables ==
    UNION {{df \in [1 .. n -> UNION {SegmentRows(CustomerIds[i]) : i \in 1 .. n}] :
               \A i \in 1 .. n : df[i].customerID = CustomerIds[i]} : n \in 0 .. MaxCustomers}

IdleGate ==
    /\ file = [ext |-> ".csv", size |-> 0, parses |-> FALSE, df |-> EmptyTable]
    /\ validation_result = None
    /\ parse_outcome = None

IdleApi ==
    /\ upload_storage = << >>
    /\ response = None
    /\ engineered = {}

IdleFeatures ==
    /\ events_df = [columns |-> {}, rows |-> << >>, event_timestamp_dtype |-> "datetime64[ns]"]
    /\ profiles_df = << >>
    /\ as_of_date = 0
    /\ seed_draw = 0
    /\ engagement_features = None
    /\ result_df = None
    /\ features_df = None
    /\ rerun_df = None
    /\ feature_config = None
    /\ batch_error = None

IdleInference ==
    /\ model = None
    /\ request = << >>
    /\ feature_vectors = None

IdleTelco ==
    /\ customers_df = << >>
    /\ df_clean = None
    /\ kaggle_features = None
    /\ random_draws = << >>
    /\ df_features = None

IdleIslamic ==
    /\ islamic_df = None
    /\ user_agg = None
    /\ scored_df = None

IdlePipeline ==
    /\ step_results = << >>
    /\ completed = 0
    /\ exit_status = None
    /\ printed = << >>

(***************************************************************************)
(* The gate alone: a file, and the two entry points applied to it          *)
(***************************************************************************)
InitGate ==
    /\ IdleIslamic
    /\ IdlePipeline
    /\ file \in Files
    /\ validation_result = None
    /\ parse_outcome = None
    /\ IdleApi
    /\ IdleFeatures
    /\ IdleInference
    /\ IdleTelco

ValidateColumns ==
    /\ validation_result = None
    /\ file.parses
    /\ validation_result' = Some(validate_columns(file.df))
    /\ UNCHANGED <<file, parse_outcome>>
    /\ UNCHANGED <<apiVars, featureVars, inferenceVars, telcoVars, islamicVars, pipelineVars>>

ValidateAndParse ==
    /\ parse_outcome = None
    /\ \E upload_id \in JobIds :
          parse_outcome' = Some(validate_and_parse(file, upload_id))
    /\ UNCHANGED <<file, validation_result>>
    /\ UNCHANGED <<apiVars, featureVars, inferenceVars, telcoVars, islamicVars, pipelineVars>>

NextGate == ValidateColumns \/ ValidateAndParse

SpecGate == InitGate /\ [][NextGate]_vars

(***************************************************************************)
(* The API: any sequence of upload, analyze, results and download requests *)
(***************************************************************************)
Init ==
    /\ IdleIslamic
    /\ IdlePipeline
    /\ IdleGate
    /\ IdleApi
    /\ IdleFeatures
    /\ IdleInference
    /\ IdleTelco

\* uuid4 does not repeat an id: the new id is one no entry has (entries are
\* never deleted).
UploadData ==
    /\ \E f \in UploadFiles, upload_id \in JobIds :
          /\ upload_id \in DOMAIN upload_storage =>
                validate_and_parse(f, upload_id).raised
          /\ upload_data(f, upload_id)
    /\ UNCHANGED engineered
    /\ UNCHANGED <<gateVars, featureVars, inferenceVars, telcoVars, islamicVars, pipelineVars>>

AnalyzeUploadedData ==
    /\ \E upload_id \in JobIds, succeeds \in BOOLEAN :
          analyze_uploaded_data(upload_id, succeeds)
    /\ UNCHANGED <<gateVars, featureVars, inferenceVars, telcoVars, islamicVars, pipelineVars>>

GetAnalysisResults ==
    /\ \E job_id \in JobIds : get_analysis_results(job_id)
    /\ UNCHANGED <<gateVars, featureVars, inferenceVars, telcoVars, islamicVars, pipelineVars>>

DownloadResults ==
    /\ \E job_id \in JobIds : download_results(job_id)
    /\ UNCHANGED <<gateVars, featureVars, inferenceVars, telcoVars, islamicVars, pipelineVars>>

Next ==
    \/ UploadData
    \/ AnalyzeUploadedData
    \/ GetAnalysisResults
    \/ DownloadResults

Spec == Init /\ [][Next]_vars

(***************************************************************************)
(* The per-user calculators applied to one event table                     *)
(***************************************************************************)
InitEngagement ==
    /\ IdleIslamic
    /\ IdlePipeline
    /\ IdleGate
    /\ IdleApi
    /\ events_df \in
          {[columns |-> c, rows |-> rows, event_timestamp_dtype |-> "datetime64[ns]"] :
              c \in {BATCH_COLUMNS, BATCH_COLUMNS \cup {"signup_date"}},
              rows \in EventTables(EngagementEvents)}
    /\ profiles_df = << >>
    /\ as_of_date \in AsOfDates
    /\ seed_draw = 0
    /\ engagement_features = None
    /\ result_df = None
    /\ features_df = None
    /\ rerun_df = None
    /\ feature_config = None
    /\ batch_error = None
    /\ IdleInference
    /\ IdleTelco

CalculateAllUsersEngagement ==
    /\ engagement_features = None
    /\ batch_error = None
    /\ IF calculate_all_users_engagement_raises(events_df, UserIds, as_of_date)
           THEN /\ batch_error' = Some("TypeError")
                /\ UNCHANGED engagement_features
           ELSE /\ engagement_features' =
                      Some(calculate_all_users_engagement(events_df, UserIds, as_of_date))
                /\ UNCHANGED batch_error
    /\ UNCHANGED <<events_df, profiles_df, as_of_date, seed_draw, result_df, features_df,
                   rerun_df, feature_config>>
    /\ UNCHANGED <<gateVars, apiVars, inferenceVars, telcoVars, islamicVars, pipelineVars>>

EngineerFeatures ==
    /\ result_df = None
    /\ batch_error = None
    /\ events_df' = to_datetime_in_place(events_df)
    /\ IF engineer_features_raises(events_df, as_of_date)
           THEN /\ batch_error' = Some("TypeError")
                /\ UNCHANGED result_df
           ELSE /\ result_df' = Some(engineer_features(events_df, as_of_date))
                /\ UNCHANGED batch_error
    /\ UNCHANGED <<profiles_df, as_of_date, seed_draw, engagement_features,
                   features_df, rerun_df, feature_config>>
    /\ UNCHANGED <<gateVars, apiVars, inferenceVars, telcoVars, islamicVars, pipelineVars>>

NextEngagement == CalculateAllUsersEngagement \/ EngineerFeatures

SpecEngagement == InitEngagement /\ [][NextEngagement]_vars

(***************************************************************************)
(* The upload path alone: engineer_features on a table a caller holds, its *)
(* timestamps text or already Timestamps                                   *)
(***************************************************************************)
InitUpload ==
    /\ IdleIslamic
    /\ IdlePipeline
    /\ IdleGate
    /\ IdleApi
    /\ events_df \in
          {[columns |-> c, rows |-> rows, event_timestamp_dtype |-> dtype] :
              c \in UploadColumnSets,
              rows \in EventTables(UploadEvents),
              dtype \in {"object", "datetime64[ns]"}}
    /\ profiles_df = << >>
    /\ as_of_date = datetime(AS_OF_DAY, 0)
    /\ seed_draw = 0
    /\ engagement_features = None
    /\ result_df = None
    /\ features_df = None
    /\ rerun_df = None
    /\ feature_config = None
    /\ batch_error = None
    /\ IdleInference
    /\ IdleTelco

NextUpload == EngineerFeatures

SpecUpload == InitUpload /\ [][NextUpload]_vars

(***************************************************************************)
(* The batch pipeline: engineer_all_features on profiles and an event table *)
(***************************************************************************)
InitBatch ==
    /\ IdleIslamic
    /\ IdlePipeline
    /\ IdleGate
    /\ IdleApi
    /\ events_df \in
          {[columns |-> BATCH_COLUMNS, rows |-> rows, event_timestamp_dtype |-> "datetime64[ns]"] :
              rows \in EventTables(BatchEvents)}
    /\ profiles_df \in ProfileLists
    /\ as_of_date = datetime(AS_OF_DAY, 0)
    /\ seed_draw \in 0 .. MaxDraw
    /\ engagement_features = None
    /\ result_df = None
    /\ features_df = None
    /\ rerun_df = None
    /\ feature_config = None
    /\ batch_error = None
    /\ IdleInference
    /\ IdleTelco

EngineerAllFeatures ==
    /\ features_df = None
    /\ features_df' = Some(engineer_all_features(profiles_df, events_df, as_of_date, seed_draw))
    /\ UNCHANGED <<events_df, profiles_df, as_of_date, seed_draw, engagement_features,
                   result_df, rerun_df, feature_config, batch_error>>
    /\ UNCHANGED <<gateVars, apiVars, inferenceVars, telcoVars, islamicVars, pipelineVars>>

\* A second run on the same input; the generator is not reseeded by the
\* input, so what it returns is drawn anew.
EngineerAllFeaturesAgain ==
    /\ features_df # None
    /\ rerun_df = None
    /\ \E draw \in 0 .. MaxDraw :
          rerun_df' = Some(engineer_all_features(profiles_df, events_df, as_of_date, draw))
    /\ UNCHANGED <<events_df, profiles_df, as_of_date, seed_draw, engagement_features,
                   result_df, features_df, feature_config, batch_error>>
    /\ UNCHANGED <<gateVars, apiVars, inferenceVars, telcoVars, islamicVars, pipelineVars>>

NextBatch == EngineerAllFeatures \/ EngineerFeatures \/ EngineerAllFeaturesAgain

SpecBatch == InitBatch /\ [][NextBatch]_vars

(***************************************************************************)
(* Inference: one batch prediction request against a loaded manifest       *)
(***************************************************************************)
InitInference ==
    /\ IdleIslamic
    /\ IdlePipeline
    /\ IdleGate
    /\ IdleApi
    /\ IdleFeatures
    /\ IdleTelco
    /\ model \in {None, Some("xgboost_model.json")}
    /\ request \in {<<body>> : body \in PostedUsers}
    /\ feature_vectors = None

\* load_model_artifacts: the manifest read from feature_config.json.
LoadModelArtifacts ==
    /\ feature_config = None
    /\ feature_config' \in {Some(config) : config \in Manifests}
    /\ UNCHANGED <<events_df, profiles_df, as_of_date, seed_draw, engagement_features,
                   result_df, features_df, rerun_df, batch_error>>
    /\ UNCHANGED <<gateVars, apiVars, inferenceVars, telcoVars, islamicVars, pipelineVars>>

PredictBatch ==
    /\ feature_vectors = None
    /\ feature_vectors' = Some(predict_batch(model, feature_config, request))
    /\ UNCHANGED <<model, request>>
    /\ UNCHANGED <<gateVars, apiVars, featureVars, telcoVars, islamicVars, pipelineVars>>

NextInference == LoadModelArtifacts \/ PredictBatch

SpecInference == InitInference /\ [][NextInference]_vars

(***************************************************************************)
(* The Telco pipeline (process_telco_data.py): the customers cleaned, then *)
(* the tenure calculator on the cleaned table                              *)
(***************************************************************************)
InitTelco ==
    /\ IdleIslamic
    /\ IdlePipeline
    /\ IdleGate
    /\ IdleApi
    /\ IdleFeatures
    /\ IdleInference
    /\ customers_df \in CustomerTables
    /\ df_clean = None
    /\ kaggle_features = None
    /\ random_draws = << >>
    /\ df_features = None

CleanTelcoData ==
    /\ df_clean = None
    /\ df_clean' = Some(clean_telco_data(customers_df))
    /\ UNCHANGED <<customers_df, kaggle_features, random_draws, df_features>>
    /\ UNCHANGED <<gateVars, apiVars, featureVars, inferenceVars, islamicVars, pipelineVars>>

EngineerTenureFeatures ==
    /\ df_clean # None
    /\ df_features = None
    /\ df_features' = Some(engineer_tenure_features(The(df_clean)))
    /\ UNCHANGED <<customers_df, df_clean, kaggle_features, random_draws>>
    /\ UNCHANGED <<gateVars, apiVars, featureVars, inferenceVars, islamicVars, pipelineVars>>

NextTelco == CleanTelcoData \/ EngineerTenureFeatures

SpecTelco == InitTelco /\ [][NextTelco]_vars

(***************************************************************************)
(* transform_kaggle_data.py: the customers mapped onto the feature schema  *)
(***************************************************************************)
InitKaggle == InitTelco

TransformKaggleData ==
    /\ kaggle_features = None
    /\ \E draws \in [DOMAIN customers_df -> [1 .. 3 -> 0 .. MaxDraw]] :
          /\ random_draws' = draws
          /\ kaggle_features' = Some(transform_kaggle_data(customers_df, draws))
    /\ UNCHANGED <<customers_df, df_clean, df_features>>
    /\ UNCHANGED <<gateVars, apiVars, featureVars, inferenceVars, islamicVars, pipelineVars>>

NextKaggle == TransformKaggleData

SpecKaggle == InitKaggle /\ [][NextKaggle]_vars

(***************************************************************************)
(* The Islamic-calendar calculator and the fast feature script on one      *)
(* event table                                                             *)
(***************************************************************************)
InitIslamic ==
    /\ IdleGate
    /\ IdleApi
    /\ IdlePipeline
    /\ events_df \in
          {[columns |-> BATCH_COLUMNS, rows |-> rows, event_timestamp_dtype |-> "datetime64[ns]"] :
              rows \in EventTables(IslamicEvents)}
    /\ profiles_df \in IslamicProfileLists
    /\ as_of_date \in AsOfDates
    /\ seed_draw = 0
    /\ engagement_features = None
    /\ result_df = None
    /\ features_df = None
    /\ rerun_df = None
    /\ feature_config = None
    /\ batch_error = None
    /\ IdleInference
    /\ IdleTelco
    /\ islamic_df = None
    /\ user_agg = None
    /\ scored_df = None

CalculateAllUsersIslamic ==
    /\ islamic_df = None
    /\ islamic_df' =
          Some(calculate_all_users_islamic(events_df, profiles_df, UserIds, as_of_date))
    /\ UNCHANGED <<user_agg, scored_df>>
    /\ UNCHANGED <<gateVars, apiVars, featureVars, inferenceVars, telcoVars, pipelineVars>>

FastFeatures ==
    /\ user_agg = None
    /\ user_agg' = Some(fast_features_user_agg(events_df, profiles_df))
    /\ UNCHANGED <<islamic_df, scored_df>>
    /\ UNCHANGED <<gateVars, apiVars, featureVars, inferenceVars, telcoVars, pipelineVars>>

NextIslamic == CalculateAllUsersIslamic \/ FastFeatures

SpecIslamic == InitIslamic /\ [][NextIslamic]_vars

(***************************************************************************)
(* The composite calculator on a customer table                            *)
(***************************************************************************)
InitComposite ==
    /\ IdleIslamic
    /\ IdlePipeline
    /\ IdleGate
    /\ IdleApi
    /\ IdleFeatures
    /\ IdleInference
    /\ customers_df \in SegmentTables
    /\ df_clean = None
    /\ kaggle_features = None
    /\ random_draws = << >>
    /\ df_features = None

EngineerCompositeFeatures ==
    /\ df_features = None
    /\ df_features' = Some(engineer_composite_features(customers_df))
    /\ UNCHANGED <<customers_df, df_clean, kaggle_features, random_draws>>
    /\ UNCHANGED <<gateVars, apiVars, featureVars, inferenceVars, islamicVars, pipelineVars>>

NextComposite == EngineerCompositeFeatures

SpecComposite == InitComposite /\ [][NextComposite]_vars

(***************************************************************************)
(* Claims about the validation gate (under SpecGate)                       *)
(***************************************************************************)
Parseable(f) ==
    /\ f.ext \in Range(ALLOWED_EXTENSIONS)
    /\ f.size <= MAX_FILE_SIZE
    /\ f.parses

\* The gate's rules as the specification words them.
GateRequirements(df) ==
    /\ \A c \in {"user_id", "event_timestamp", "event_type"} :
          c \in df.columns /\ df.nulls[c] = 0
    /\ df.timestamps_parse
    /\ df.rows >= 100
    /\ df.unique_users >= 10

WithAllOptionalColumns(df) ==
    [df EXCEPT !.columns = @ \cup {"session_duration", "donation_amount", "content_category"}]

\* C2: the gate accepts a table exactly when the required columns are present
\* without nulls, the timestamps parse, there are at least 100 rows and at
\* least 10 distinct users; 99 rows or 9 users are rejected, 100 rows with 10
\* users are accepted; absent optional columns add a warning and never reject.
C2_GateAcceptsExactly ==
    \A v \in Range(validation_result) :
        LET df == file.df
        IN  /\ v.is_valid <=> GateRequirements(df)
            /\ df.rows = 99 => ~v.is_valid
            /\ ("user_id" \in df.columns /\ df.unique_users = 9) => ~v.is_valid
            /\ (GateRequirements([df EXCEPT !.rows = 100, !.unique_users = 10])
                  /\ df.rows = 100 /\ df.unique_users = 10) => v.is_valid
            /\ (v.warnings # <<>>) <=>
                  (\E c \in {"session_duration", "donation_amount", "content_category"} :
                        c \notin df.columns)
            /\ \A e \in Range(v.errors) :
                  e.rule # "optional_missing" /\ Range(e.columns) \cap Range(OPTIONAL_COLUMNS) = {}
            /\ v.is_valid = validate_columns(WithAllOptionalColumns(df)).is_valid

C2_Witness ==
    \E v \in Range(validation_result) :
        /\ v.is_valid
        /\ file.df.rows = 100
        /\ file.df.unique_users = 10
        /\ v.warnings # <<>>
        /\ "donation_amount" \notin file.df.columns

\* C3: a required column that is missing or holds a null makes validation fail
\* with an error naming that column, and validate_and_parse returns no result.
C3_SchemaErrorNamesColumn ==
    /\ \A v \in Range(validation_result) :
          \A c \in Range(REQUIRED_COLUMNS) :
              /\ c \notin file.df.columns =>
                    /\ ~v.is_valid
                    /\ \E e \in Range(v.errors) :
                          e.rule = "missing_columns" /\ c \in Range(e.columns)
              /\ (c \in file.df.columns /\ file.df.nulls[c] > 0) =>
                    /\ ~v.is_valid
                    /\ \E e \in Range(v.errors) :
                          e.rule = "nulls" /\ e.columns = <<c>>
    /\ \A o \in Range(parse_outcome) :
          Parseable(file) =>
              \A c \in Range(REQUIRED_COLUMNS) :
                  (c \notin file.df.columns \/ file.df.nulls[c] > 0) =>
                      /\ o.raised
                      /\ o.status_code = 400
                      /\ IsNone(o.result)
                      /\ \E e \in Range(o.detail) :
                            /\ e.rule \in {"missing_columns", "nulls"}
                            /\ c \in Range(e.columns)

C3_Witness ==
    \E o \in Range(parse_outcome) :
        /\ Parseable(file)
        /\ "event_type" \notin file.df.columns
        /\ file.df.nulls["user_id"] > 0
        /\ o.raised

\* How many entries of an error list state a rule (about a column).
EntriesFor(errors, rule, col) ==
    Cardinality({i \in DOMAIN errors :
                    /\ errors[i].rule = rule
                    /\ col # "" => col \in Range(errors[i].columns)})

AllRulesReported(df, errors) ==
    /\ \A c \in Range(REQUIRED_COLUMNS) :
          /\ c \notin df.columns => EntriesFor(errors, "missing_columns", c) = 1
          /\ (c \in df.columns /\ df.nulls[c] > 0) => EntriesFor(errors, "nulls", c) = 1
    /\ ("event_timestamp" \in df.columns /\ ~df.timestamps_parse) =>
          EntriesFor(errors, "timestamp", "") = 1
    /\ df.rows < 100 => EntriesFor(errors, "rows", "") = 1
    /\ ("user_id" \in df.columns /\ df.unique_users < 10) =>
          EntriesFor(errors, "users", "") = 1

RulesViolated(df) ==
    Cardinality({c \in Range(REQUIRED_COLUMNS) : c \notin df.columns})
    + Cardinality({c \in Range(REQUIRED_COLUMNS) : c \in df.columns /\ df.nulls[c] > 0})
    + (IF "event_timestamp" \in df.columns /\ ~df.timestamps_parse THEN 1 ELSE 0)
    + (IF df.rows < 100 THEN 1 ELSE 0)
    + (IF "user_id" \in df.columns /\ df.unique_users < 10 THEN 1 ELSE 0)

\* C4: a failed validation reports every violated rule: the error list of
\* _validate_columns, and the one validate_and_parse raises with, holds one
\* entry for each rule the table violates.
C4_AllViolationsReported ==
    /\ \A v \in Range(validation_result) : AllRulesReported(file.df, v.errors)
    /\ \A o \in Range(parse_outcome) :
          (Parseable(file) /\ o.raised) => AllRulesReported(file.df, o.detail)

C4_Witness ==
    \E o \in Range(parse_outcome) :
        /\ Parseable(file)
        /\ o.raised
        /\ RulesViolated(file.df) >= 4
        /\ Len(o.detail) >= 3

(***************************************************************************)
(* Claims about the job store (under Spec)                                 *)
(***************************************************************************)
\* C5: an upload that fails validation creates no entry in the job store, and
\* feature engineering never runs on data that did not pass the gate: every
\* entry of upload_storage holds a table that satisfies all the gate's rules.
C5_OnlyValidatedDataStored ==
    /\ [](/\ \A id \in DOMAIN upload_storage : GateRequirements(upload_storage[id].data)
          /\ \A df \in engineered : GateRequirements(df))
    /\ [][(\E r \in Range(response') : r.endpoint = "upload" /\ r.status_code # 200)
              => /\ upload_storage' = upload_storage
                 /\ engineered' = engineered]_vars

C5_Witness ==
    /\ \E r \in Range(response) : r.endpoint = "upload" /\ r.status_code = 400
    /\ DOMAIN upload_storage # {}
    /\ engineered # {}

(***************************************************************************)
(* Claims about the per-user calculators (under SpecEngagement)            *)
(***************************************************************************)
EventsAtOrBefore(user_id) ==
    {i \in DOMAIN events_df.rows :
        /\ events_df.rows[i].user_id = user_id
        /\ events_df.rows[i].event_timestamp <= as_of_date}

EventsOf(user_id) ==
    {i \in DOMAIN events_df.rows : events_df.rows[i].user_id = user_id}

\* C7: for a user with no events at or before the cutoff, also one the event
\* table does not know, every engagement feature is its default: 180 days
\* since the last session, and 0 for every count, streak and ratio.
C7_EngagementDefaults ==
    \A features \in Range(engagement_features) :
        /\ Len(features) = Len(UserIds)
        /\ \A i \in DOMAIN features :
              (features[i].user_id = UserIds[i] /\ EventsAtOrBefore(UserIds[i]) = {}) =>
                  /\ features[i].days_since_last_session = 180
                  /\ features[i].session_frequency_7d = 0
                  /\ features[i].session_frequency_30d = 0
                  /\ features[i].avg_session_duration = <<0, 1>>
                  /\ features[i].total_sessions = 0
                  /\ features[i].streak_current = 0
                  /\ features[i].streak_longest = 0
                  /\ features[i].days_since_signup = 0
                  /\ features[i].sessions_per_week = <<0, 1>>
                  /\ features[i].weekend_activity_ratio = <<0, 1>>

\* One user has events only after the cutoff, another none at all, a third
\* has sessions before it.
C7_Witness ==
    /\ engagement_features # None
    /\ EventsOf(UserIds[1]) # {} /\ EventsAtOrBefore(UserIds[1]) = {}
    /\ EventsOf(UserIds[3]) = {}
    /\ The(engagement_features)[2].total_sessions > 0

\* C8: the current streak never exceeds the longest streak.
C8_CurrentStreakAtMostLongest ==
    \A features \in Range(engagement_features) :
        \A i \in DOMAIN features :
            features[i].streak_current <= features[i].streak_longest

C8_Witness ==
    \E features \in Range(engagement_features) :
        /\ features[1].streak_current = 1
        /\ features[1].streak_longest = 2

\* C9: the 7-day count never exceeds the 30-day count, in the engagement
\* calculator (session_frequency) and in the upload path (events_last).
C9_SevenDayCountAtMostThirtyDay ==
    /\ \A features \in Range(engagement_features) :
          \A i \in DOMAIN features :
              features[i].session_frequency_7d <= features[i].session_frequency_30d
    /\ \A features \in Range(result_df) :
          \A i \in DOMAIN features :
              features[i].events_last_7d <= features[i].events_last_30d

C9_Witness ==
    /\ \E features \in Range(engagement_features) :
          /\ features[1].session_frequency_7d = 1
          /\ features[1].session_frequency_30d = 2
          /\ features[1].total_sessions = 3
    /\ \E features \in Range(result_df) :
          \E i \in DOMAIN features :
              /\ features[i].events_last_7d = 1
              /\ features[i].events_last_30d = 2
              /\ features[i].total_events = 3

(***************************************************************************)
(* Claims about the batch pipeline (under SpecBatch)                       *)
(***************************************************************************)
\* The event table without the events after the cutoff: it agrees with
\* events_df on every event at or before the cutoff.
EventsUpToCutoff ==
    [events_df EXCEPT !.rows = SelectSeq(@, LAMBDA e : e.event_timestamp <= as_of_date)]

\* C1: the features computed for a cutoff depend only on the events at or
\* before it: the feature table assembled from events_df is the one assembled
\* from the table that agrees with it up to the cutoff and holds nothing later.
C1_FeaturesDependOnlyOnPast ==
    \A features \in Range(features_df) :
        features =
            engineer_all_features(profiles_df, EventsUpToCutoff, as_of_date, seed_draw)

UsersWithEvents == {events_df.rows[i].user_id : i \in DOMAIN events_df.rows}

\* C6: the assembled feature table has exactly one row per user of the
\* profile list, whether or not the user has events; the upload path, which
\* has no profile list, has one row per user seen at or before the as-of date.
C6_OneRowPerMasterListUser ==
    /\ \A features \in Range(features_df) :
          /\ Len(features.rows) = Len(profiles_df)
          /\ \A p \in Range(profiles_df) :
                Cardinality({i \in DOMAIN features.rows :
                                features.rows[i].cells.user_id = p.user_id}) = 1
          /\ \A i \in DOMAIN features.rows :
                \E p \in Range(profiles_df) : features.rows[i].cells.user_id = p.user_id
    /\ \A result \in Range(result_df) :
          /\ \A i, j \in DOMAIN result : result[i].user_id = result[j].user_id => i = j
          /\ {result[i].user_id : i \in DOMAIN result} =
                {e.user_id : e \in Range(EventsUpToCutoff.rows)}

\* Two profiles, of a user with events and of a user without any, and events
\* of a user the profiles do not list.
C6_Witness ==
    /\ features_df # None
    /\ result_df # None
    /\ Len(profiles_df) = 2
    /\ \E p \in Range(profiles_df) : p.user_id \notin UsersWithEvents
    /\ \E p \in Range(profiles_df) : p.user_id \in UsersWithEvents
    /\ \E u \in UsersWithEvents : \A p \in Range(profiles_df) : p.user_id # u
    /\ Len(The(features_df).rows) = 2

IndicatorColumns(frame, prefix) ==
    {c \in Range(frame.columns) :
        \E d \in Range(DUMMY_NAMES) : d[1] = prefix /\ d[3] = c}

IndicatorOf(prefix, value) ==
    (CHOOSE d \in Range(DUMMY_NAMES) : d[1] = prefix /\ d[2] = value)[3]

\* The value each listed user has in a categorical column.
CategoricalValues(prefix) ==
    [i \in DOMAIN profiles_df |->
        CASE prefix = "subscription" -> profiles_df[i].subscription_type
          [] prefix = "location" -> profiles_df[i].location
          [] prefix = "content" ->
                calculate_content_features(events_df, profiles_df[i].user_id,
                                           seed_draw).favorite_content_type]

\* C10: a categorical column with k distinct observed values gives exactly k
\* indicator columns, and every row holds 1 in exactly one of them, the one of
\* its value, and 0 in the others.
C10_OneHotExactlyOne ==
    \A features \in Range(features_df) :
        \A prefix \in {"content", "subscription", "location"} :
            LET values == CategoricalValues(prefix)
                indicators == IndicatorColumns(features, prefix)
            IN  /\ Cardinality(indicators) = Cardinality(Range(values))
                /\ Cardinality({k \in DOMAIN features.columns :
                                    features.columns[k] \in indicators}) =
                      Cardinality(Range(values))
                /\ \A i \in DOMAIN features.rows :
                      /\ {c \in indicators : features.rows[i].cells[c] = 1} =
                            {IndicatorOf(prefix, values[i])}
                      /\ \A c \in indicators : features.rows[i].cells[c] \in {0, 1}

\* Two users who differ in every categorical column.
C10_Witness ==
    /\ features_df # None
    /\ Len(profiles_df) = 2
    /\ \A prefix \in {"content", "subscription", "location"} :
          /\ Cardinality(Range(CategoricalValues(prefix))) = 2
          /\ Cardinality(IndicatorColumns(The(features_df), prefix)) = 2

\* The features the code simulates from the random generator.
RANDOM_MOCK_FEATURES ==
    {"friends_count", "shares_sent", "comments_made", "days_since_last_social",
     "bookmark_count"}

\* C11: two runs of feature assembly on the same profiles and events give the
\* same columns in the same order and, outside the simulated features, the
\* same value in every row.
C11_RerunGivesSameFeatures ==
    \A first \in Range(features_df), second \in Range(rerun_df) :
        /\ first.columns = second.columns
        /\ Len(first.rows) = Len(second.rows)
        /\ \A i \in DOMAIN first.rows :
              \A c \in Range(first.columns) \ RANDOM_MOCK_FEATURES :
                  first.rows[i].cells[c] = second.rows[i].cells[c]

\* Two runs that differ in a simulated feature, on a user with content events.
C11_Witness ==
    /\ features_df # None
    /\ rerun_df # None
    /\ \E i \in DOMAIN The(features_df).rows :
          /\ The(features_df).rows[i].cells.days_since_last_social #
                The(rerun_df).rows[i].cells.days_since_last_social
          /\ The(features_df).rows[i].cells.topic_diversity_score > 0

(***************************************************************************)
(* Claims about inference (under SpecInference)                            *)
(***************************************************************************)
\* C12: the feature vector built for a user has one entry per column of the
\* manifest, in the manifest's order: the value the posted user gives for the
\* column, whatever the order of its members, and 0 when it gives none.
C12_VectorFollowsManifest ==
    \A outcome \in Range(feature_vectors) :
        outcome.status_code = 200 =>
            \A u \in DOMAIN request :
                LET cols == The(feature_config).feature_columns
                IN  /\ Len(outcome.vectors[u]) = Len(cols)
                    /\ \A i \in DOMAIN cols :
                          outcome.vectors[u][i] =
                              IF cols[i] \in Keys(request[u])
                                  THEN ValueOf(request[u], cols[i])
                                  ELSE 0

(***************************************************************************)
(* Claims about the label (under SpecKaggle)                               *)
(***************************************************************************)
KAGGLE_FEATURE_COLUMNS == {"days_since_signup", "days_since_last_session", "streak_current"}

\* The customers with the Churn of every row the other way round.
ChurnFlipped(df) ==
    [i \in DOMAIN df |-> [df[i] EXCEPT !.Churn = IF @ = "Yes" THEN "No" ELSE "Yes"]]

\* C13: is_churned is the label only: no feature column of a produced feature
\* table is computed from it, so the table transform_kaggle_data writes has the
\* same feature values as the one it writes, on the same draws of the
\* generator, for the customers with the other Churn.
C13_NoFeatureComputedFromLabel ==
    kaggle_features # None =>
        \A i \in DOMAIN The(kaggle_features) :
            \A column \in KAGGLE_FEATURE_COLUMNS :
                The(kaggle_features)[i][column] =
                    transform_kaggle_data(ChurnFlipped(customers_df), random_draws)[i][column]

(***************************************************************************)
(* Claims about the customer table (under SpecTelco)                       *)
(***************************************************************************)
\* The number each text of the model spells, NaN for the blank.
SpelledNumber(text) ==
    CASE text = <<"5", "9", ".", "7">> -> Some(<<597, 10>>)
      [] text = <<"1", "0", "8">> -> Some(<<108, 1>>)
      [] OTHER -> NaN

\* The raw rows whose TotalCharges spells a number, in the order of the table.
CoercibleRows == SelectSeq(customers_df, LAMBDA row : SpelledNumber(row.TotalCharges) # NaN)

\* C19: the cleaned table holds exactly the raw rows whose TotalCharges spells
\* a number, in their original order and with that number as TotalCharges, so
\* every row the tenure calculator works on has a numeric TotalCharges; the
\* caller's raw table is never modified.
C19_CleanedRowsHaveNumericTotalCharges ==
    /\ [](/\ df_clean # None =>
                /\ Len(The(df_clean)) = Len(CoercibleRows)
                /\ \A i \in DOMAIN The(df_clean) :
                      /\ The(df_clean)[i].customerID = CoercibleRows[i].customerID
                      /\ The(df_clean)[i].tenure = CoercibleRows[i].tenure
                      /\ The(df_clean)[i].Churn = CoercibleRows[i].Churn
                      /\ The(df_clean)[i].TotalCharges # NaN
                      /\ The(df_clean)[i].TotalCharges =
                             SpelledNumber(CoercibleRows[i].TotalCharges)
          /\ df_features # None =>
                \A i \in DOMAIN The(df_features) :
                    /\ The(df_features)[i].TotalCharges # NaN
                    /\ The(df_features)[i].customer_lifetime_ratio # NaN
                    /\ The(df_features)[i].avg_monthly_spend # NaN)
    /\ [][customers_df' = customers_df]_vars

\* A table whose first row has a blank TotalCharges and whose second row has an
\* amount, cleaned and handed to the tenure calculator.
C19_Witness ==
    /\ Len(customers_df) = 2
    /\ customers_df[1].TotalCharges = <<" ">>
    /\ customers_df[2].TotalCharges = <<"5", "9", ".", "7">>
    /\ customers_df[2].tenure = 2
    /\ df_clean # None
    /\ df_features # None
    /\ Len(The(df_features)) = 1
    /\ The(df_features)[1].customerID = customers_df[2].customerID

(***************************************************************************)
(* Claims about missing values (under SpecEngagement)                      *)
(***************************************************************************)
\* C14: every row of a produced feature table has a defined value for every
\* feature column; in the table of the upload path activity_variance, the one
\* column computed by a standard deviation, is never NaN.
C14_EveryFeatureValueDefined ==
    \A table \in Range(result_df) :
        \A i \in DOMAIN table : table[i].activity_variance # NaN

(***************************************************************************)
(* Claims about errors of one entity (under SpecEngagement)                *)
(***************************************************************************)
\* The users whose engagement calculation raises on events_df.
FailingUsers ==
    {u \in Range(UserIds) : calculate_engagement_features_raises(events_df, u, as_of_date)}

\* events_df without the events of the users whose calculation raises.
EventsWithoutFailingUsers ==
    [events_df EXCEPT !.rows = SelectSeq(@, LAMBDA e : e.user_id \notin FailingUsers)]

\* C15: an error raised while computing one user's features does not abort the
\* batch: calculate_all_users_engagement raises nothing and returns a row for
\* every user, the default values for a user whose calculation raised, and for
\* every other user the row it returns on the table without the failing users.
C15_EntityErrorIsIsolated ==
    /\ batch_error = None
    /\ \A table \in Range(engagement_features) :
          /\ Len(table) = Len(UserIds)
          /\ \A i \in DOMAIN table :
                table[i] =
                    IF UserIds[i] \in FailingUsers
                        THEN WithUserId(engagement_defaults, UserIds[i])
                        ELSE WithUserId(
                                 calculate_engagement_features(EventsWithoutFailingUsers,
                                     UserIds[i], as_of_date),
                                 UserIds[i])

(***************************************************************************)
(* Claims about the writers of the job store (under Spec)                  *)
(***************************************************************************)
\* C16: in any interleaving of requests, an accepted upload adds one key that
\* the store did not hold and leaves every entry of the store as it was, and
\* any other change of the store is an analyze request for a job id J writing
\* the predictions, the status and the error of the slot of J only; no key is
\* ever removed.
C16_SingleWriterPerKey ==
    [][/\ DOMAIN upload_storage \subseteq DOMAIN upload_storage'
       /\ DOMAIN upload_storage' # DOMAIN upload_storage =>
             /\ The(response').endpoint = "upload"
             /\ The(response').status_code = 200
             /\ DOMAIN upload_storage' = DOMAIN upload_storage \cup {The(response').job_id}
             /\ The(response').job_id \notin DOMAIN upload_storage
             /\ \A job_id \in DOMAIN upload_storage :
                   upload_storage'[job_id] = upload_storage[job_id]
       /\ (DOMAIN upload_storage' = DOMAIN upload_storage /\ upload_storage' # upload_storage) =>
             /\ The(response').endpoint = "analyze"
             /\ \A job_id \in DOMAIN upload_storage :
                   IF job_id = The(response').job_id
                       THEN /\ upload_storage'[job_id].data = upload_storage[job_id].data
                            /\ upload_storage'[job_id].summary = upload_storage[job_id].summary
                       ELSE upload_storage'[job_id] = upload_storage[job_id]
      ]_vars

\* Two jobs in the store, the first analyzed and the second not.
C16_Witness ==
    /\ DOMAIN upload_storage = {1, 2}
    /\ upload_storage[1].status = "completed"
    /\ upload_storage[2].status = "uploaded"
    /\ response # None
    /\ The(response).endpoint = "analyze"
    /\ The(response).job_id = 1

(***************************************************************************)
(* Claims about the upload path (under SpecUpload)                         *)
(***************************************************************************)
\* C17: every calculator leaves the raw table it reads unchanged: the caller's
\* event table has the same columns and the same values after a call as
\* before it.
C17_RawTableUnchanged == [][events_df' = events_df]_vars

UPLOAD_FEATURE_COLUMNS ==
    {"user_id", "total_events", "days_since_last_activity", "events_last_7d", "events_last_30d",
     "days_since_signup", "avg_session_duration", "unique_event_types", "prayer_count",
     "days_since_last_prayer", "quran_count", "days_since_last_quran", "donation_count",
     "total_donation_amount", "days_since_last_donation", "activity_variance",
     "ramadan_activity"}

\* C18: on a table without session_duration, engineer_features raises nothing;
\* whatever optional columns are absent, every row it returns has the same
\* feature columns, with avg_session_duration = 0 when session_duration is
\* absent and donation_count = 0, total_donation_amount = 0 and
\* days_since_last_donation = 999 when donation_amount is absent.
C18_AbsentOptionalColumnsGiveDefaults ==
    /\ "session_duration" \notin events_df.columns => batch_error = None
    /\ \A table \in Range(result_df) :
          \A i \in DOMAIN table :
              /\ DOMAIN table[i] = UPLOAD_FEATURE_COLUMNS
              /\ "session_duration" \notin events_df.columns =>
                    table[i].avg_session_duration = Frac(0, 1)
              /\ "donation_amount" \notin events_df.columns =>
                    /\ table[i].donation_count = 0
                    /\ table[i].total_donation_amount = 0
                    /\ table[i].days_since_last_donation = 999

\* A table with neither optional column, whose user has a reading and a
\* donation, engineered.
C18_Witness ==
    /\ events_df.columns = Range(REQUIRED_COLUMNS)
    /\ \E e \in Range(events_df.rows) : e.user_id = UserIds[1] /\ e.event_type = "donation"
    /\ \E e \in Range(events_df.rows) : e.user_id = UserIds[1] /\ e.event_type = "quran_read"
    /\ result_df # None
    /\ Len(The(result_df)) >= 1

(***************************************************************************)
(* Claims about the streaks (under SpecEngagement)                         *)
(***************************************************************************)
\* The dates of the sessions of a user at or before the cutoff.
SessionDates(user_id) ==
    {DateOf(e.event_timestamp) :
        e \in {x \in Range(events_df.rows) :
                  /\ x.user_id = user_id
                  /\ x.event_type = "app_open"
                  /\ x.event_timestamp <= as_of_date}}

\* The length of the longest run of consecutive dates of a set of dates.
LongestRun(dates) ==
    IF dates = {} THEN 0
    ELSE MaxOf({last - first + 1 : <<first, last>> \in
                   {r \in dates \X dates : r[1] <= r[2] /\ r[1] .. r[2] \subseteq dates}})

\* The number of consecutive dates of the set that end at the given date.
RunEndingAt(dates, date) ==
    IF date \notin dates THEN 0
    ELSE MaxOf({date - first + 1 : first \in {f \in dates : f <= date /\ f .. date \subseteq dates}})

\* C20: for the sessions of a user at or before the cutoff, streak_longest is
\* the length of the longest run of consecutive dates among the session dates
\* and streak_current is the number of consecutive session dates that end at
\* the as-of date, 0 when the as-of date has no session.
C20_StreaksAreRunsOfDates ==
    \A table \in Range(engagement_features) :
        \A i \in DOMAIN table :
            /\ table[i].streak_longest = LongestRun(SessionDates(table[i].user_id))
            /\ table[i].streak_current =
                   RunEndingAt(SessionDates(table[i].user_id), DateOf(as_of_date))

\* The example: a session and a reading on one day, a session five days later,
\* and the as-of date five days after that.
C20_Witness ==
    /\ events_df.rows =
          <<EventRow(UserIds[1], datetime(AS_OF_DAY - 10, 0), "app_open"),
            EventRow(UserIds[1], datetime(AS_OF_DAY - 10, 0), "quran_read"),
            EventRow(UserIds[1], datetime(AS_OF_DAY - 5, 0), "app_open")>>
    /\ as_of_date = datetime(AS_OF_DAY, 0)
    /\ engagement_features # None
    /\ The(engagement_features)[1].days_since_last_session = 5
    /\ The(engagement_features)[1].total_sessions = 2
    /\ The(engagement_features)[1].streak_current = 0
    /\ The(engagement_features)[1].streak_longest = 1

(***************************************************************************)
(* Claims about the churn segment (under SpecComposite)                    *)
(***************************************************************************)
VeryHighRule(row) ==
    row.Contract = "Month-to-month" /\ row.tenure < 12 /\ row.InternetService = "Fiber optic"
HighRule(row) ==
    row.Contract = "Month-to-month" /\ (row.tenure < 24 \/ row.PaymentMethod = "Electronic check")
MediumRule(row) == row.Contract = "Month-to-month" \/ row.tenure < 12

SessionsOf(user_id) ==
    {e \in Range(events_df.rows) :
        /\ e.user_id = user_id
        /\ e.event_type = "app_open"
        /\ e.event_timestamp <= as_of_date}

\* C22: the Ramadan engagement ratio is the sentinel 10 when no session is
\* outside the window and some session is inside it, and 0 when there is
\* none of either, in the table of calculate_all_users_islamic and in the
\* user_agg table of the fast feature script alike.
C22_RatioSentinelWhenNothingOutside ==
    /\ \A table \in Range(islamic_df) :
          \A i \in DOMAIN table :
              LET inside == {e \in SessionsOf(table[i].user_id) :
                                is_during_ramadan(e.event_timestamp)}
                  outside == SessionsOf(table[i].user_id) \ inside
              IN  /\ (outside = {} /\ inside # {}) =>
                         table[i].ramadan_engagement_ratio = Frac(10, 1)
                  /\ (outside = {} /\ inside = {}) =>
                         table[i].ramadan_engagement_ratio = Frac(0, 1)
    /\ \A table \in Range(user_agg) :
          \A i \in DOMAIN table :
              LET inside == {e \in Range(events_df.rows) :
                                e.user_id = table[i].user_id /\ is_during_ramadan(e.event_timestamp)}
                  outside == {e \in Range(events_df.rows) :
                                 e.user_id = table[i].user_id /\ ~is_during_ramadan(e.event_timestamp)}
              IN  /\ (outside = {} /\ inside # {}) =>
                         table[i].ramadan_engagement_ratio = Frac(10, 1)
                  /\ (outside = {} /\ inside = {}) =>
                         table[i].ramadan_engagement_ratio = Frac(0, 1)

\* The dates from the date of one instant through the date of another.
DatesOfWindow(start, end) == DateOf(start) .. DateOf(end)

\* C24: eid_participation is 1 exactly when the user has a session at or
\* before the cutoff whose calendar date lies in the Eid window, from its
\* start date through its end date, and 0 otherwise; muharram_participation
\* likewise for the Muharram window.
C24_ParticipationIsPresenceInWindow ==
    \A table \in Range(islamic_df) :
        \A i \in DOMAIN table :
            /\ table[i].eid_participation =
                   IF \E e \in SessionsOf(table[i].user_id) :
                          DateOf(e.event_timestamp) \in DatesOfWindow(EID_START, EID_END)
                       THEN 1 ELSE 0
            /\ table[i].muharram_participation =
                   IF \E e \in SessionsOf(table[i].user_id) :
                          DateOf(e.event_timestamp) \in DatesOfWindow(MUHARRAM_START, MUHARRAM_END)
                       THEN 1 ELSE 0

\* C25: the jummah_participation_rate of every user lies in [0, 1].
C25_JummahRateAtMostOne ==
    \A table \in Range(islamic_df) :
        \A i \in DOMAIN table :
            /\ FracLeq(Frac(0, 1), table[i].jummah_participation_rate)
            /\ FracLeq(table[i].jummah_participation_rate, Frac(1, 1))

\* The profile of a user, if the profile list has one.
ProfileOf(user_id) == SelectSeq(profiles_df, LAMBDA p : p.user_id = user_id)

\* C28: days_since_ramadan and is_ramadan_convert do not depend on the user's
\* events: for every user days_since_ramadan is the whole days from the
\* Ramadan end date to the as-of date, and is_ramadan_convert is 1 exactly
\* when the user has a profile whose signup date lies in the Ramadan window.
C28_EventFreeFeaturesIgnoreEvents ==
    \A table \in Range(islamic_df) :
        \A i \in DOMAIN table :
            /\ table[i].days_since_ramadan = DeltaDays(as_of_date - RAMADAN_END)
            /\ table[i].is_ramadan_convert =
                   IF \E p \in Range(ProfileOf(table[i].user_id)) :
                          is_during_ramadan(p.signup_date)
                       THEN 1 ELSE 0

\* The number of sessions a week over the span from a user's first event to
\* the as-of date, the span counted as one week at least.
SessionsPerWeekOver(user_id) ==
    LET user_events == user_events_asof(events_df, user_id, as_of_date)
        first_event == MinOf(Range(Column(user_events, "event_timestamp")))
        days == DeltaDays(as_of_date - first_event) + 1
    IN  IF days >= 7 THEN Frac(Cardinality(SessionsOf(user_id)) * 7, days)
                     ELSE Frac(Cardinality(SessionsOf(user_id)), 1)

\* C23: for every user with at least one session at or before the cutoff,
\* sessions_per_week is total_sessions divided by the number of weeks from
\* the user's first event to the as-of date, the number of weeks taken as at
\* least 1.
C23_SessionsPerWeekIsSessionsOverWeeks ==
    \A table \in Range(engagement_features) :
        \A i \in DOMAIN table :
            SessionsOf(table[i].user_id) # {} =>
                /\ table[i].total_sessions = Cardinality(SessionsOf(table[i].user_id))
                /\ table[i].sessions_per_week = SessionsPerWeekOver(table[i].user_id)

(***************************************************************************)
(* The analysis heuristic of the upload API (api/simple_api.py)            *)
(***************************************************************************)
FracPlus(x, y) == Frac(x[1] * y[2] + y[1] * x[2], x[2] * y[2])
FracMax(x, y) == IF FracLeq(x, y) THEN y ELSE x
FracMin(x, y) == IF FracLeq(x, y) THEN x ELSE y

\* The weighted sum of the three terms, before it is clamped.
churn_score(row) ==
    FracPlus(
        FracPlus(
            FracTimes(Frac(1, 2), Frac(row.days_since_last_activity, 30)),
            FracTimes(Frac(3, 10),
                Frac(MaxOf({1, row.events_last_30d}) - row.events_last_7d,
                     MaxOf({1, row.events_last_30d})))),
        FracTimes(Frac(1, 5), Frac(row.days_since_last_prayer, 30)))

\* The heuristic with the weighted sum left as it is.
churn_probability_unclamped(row) == churn_score(row)

churn_probability(row) ==
    FracMin(Frac(95, 100), FracMax(Frac(5, 100), churn_score(row)))

\* x > 0.7 and x > 0.4 on the probability.
risk_level(x) ==
    IF ~FracLeq(x, Frac(7, 10)) THEN "HIGH"
    ELSE IF ~FracLeq(x, Frac(4, 10)) THEN "MEDIUM"
    ELSE "LOW"

\* The two columns analyze_uploaded_data adds to the feature table.
score_features(features) ==
    [i \in DOMAIN features |->
        [user_id |-> features[i].user_id,
         days_since_last_activity |-> features[i].days_since_last_activity,
         events_last_7d |-> features[i].events_last_7d,
         events_last_30d |-> features[i].events_last_30d,
         days_since_last_prayer |-> features[i].days_since_last_prayer,
         churn_probability |-> churn_probability(features[i]),
         risk_level |-> risk_level(churn_probability(features[i]))]]

\* Uploaded events of two users around the 7-day and 30-day windows: prayer
\* logs today and some weeks ago, and events that are no prayer.
HeuristicEvents ==
    {EventRow(UserIds[1], datetime(d, 0), "prayer_log") : d \in {AS_OF_DAY - 45, AS_OF_DAY - 20, AS_OF_DAY}}
    \cup {EventRow(UserIds[1], datetime(AS_OF_DAY - 40, 0), "quran_read"),
          EventRow(UserIds[2], datetime(AS_OF_DAY - 3, 0), "quran_read"),
          EventRow(UserIds[2], datetime(AS_OF_DAY, 0), "app_open"),
          EventRow(UserIds[2], datetime(AS_OF_DAY + 1, 0), "prayer_log")}

InitHeuristic ==
    /\ IdleIslamic
    /\ IdlePipeline
    /\ IdleGate
    /\ IdleApi
    /\ events_df \in
          {[columns |-> Range(REQUIRED_COLUMNS), rows |-> rows,
            event_timestamp_dtype |-> "object"] :
              rows \in EventTables(HeuristicEvents)}
    /\ profiles_df = << >>
    /\ as_of_date \in AsOfDates
    /\ seed_draw = 0
    /\ engagement_features = None
    /\ result_df = None
    /\ features_df = None
    /\ rerun_df = None
    /\ feature_config = None
    /\ batch_error = None
    /\ IdleInference
    /\ IdleTelco

\* The body of analyze_uploaded_data on the stored table: the features, then
\* the probability and the risk level of every user; as_of_date is now().
AnalyzeHeuristic ==
    /\ scored_df = None
    /\ batch_error = None
    /\ events_df' = to_datetime_in_place(events_df)
    /\ IF engineer_features_raises(events_df, as_of_date)
           THEN /\ batch_error' = Some("Analysis failed")
                /\ UNCHANGED scored_df
           ELSE /\ scored_df' = Some(score_features(engineer_features(events_df, as_of_date)))
                /\ UNCHANGED batch_error
    /\ UNCHANGED <<profiles_df, as_of_date, seed_draw, engagement_features, result_df,
                   features_df, rerun_df, feature_config, islamic_df, user_agg>>
    /\ UNCHANGED <<gateVars, apiVars, inferenceVars, telcoVars, pipelineVars>>

NextHeuristic == AnalyzeHeuristic

SpecHeuristic == InitHeuristic /\ [][NextHeuristic]_vars

\* C29: in the upload analysis heuristic every user without a prayer or salah
\* event (days_since_last_prayer = 999) gets churn_probability 0.95 and
\* risk_level HIGH, whatever the recency and the 7-day and 30-day activity,
\* and the probability of every user lies in [0.05, 0.95].
C29_NoPrayerIsHighRiskAndProbabilityClamped ==
    \A table \in Range(scored_df) :
        \A i \in DOMAIN table :
            /\ FracLeq(Frac(5, 100), table[i].churn_probability)
            /\ FracLeq(table[i].churn_probability, Frac(95, 100))
            /\ table[i].days_since_last_prayer = 999 =>
                  /\ table[i].churn_probability = Frac(95, 100)
                  /\ table[i].risk_level = "HIGH"

\* A scored table with a user who never prayed and was active today, and a
\* user whose prayer today brings the weighted sum below the lower clamp.
C29_Witness ==
    \E table \in Range(scored_df) :
        /\ \E i \in DOMAIN table :
              /\ table[i].days_since_last_prayer = 999
              /\ table[i].days_since_last_activity = 0
              /\ table[i].events_last_7d = table[i].events_last_30d
              /\ table[i].risk_level = "HIGH"
        /\ \E i \in DOMAIN table :
              /\ table[i].days_since_last_prayer = 0
              /\ table[i].churn_probability = Frac(5, 100)
              /\ table[i].risk_level = "LOW"

\* C26: a job whose status is 'completed' has predictions stored, and
\* get_analysis_results returns predictions only for a job whose status is
\* 'completed'; for a job uploaded but not analyzed, or whose analysis
\* failed, it returns the status without predictions, and for an unknown job
\* id it answers 404.  (Every request overwrites the response, so the store
\* beside a results response is the store the request read.)
C26_ResultsFollowStatus ==
    /\ \A job_id \in DOMAIN upload_storage :
          upload_storage[job_id].status = "completed" =>
              ~IsNone(upload_storage[job_id].predictions)
    /\ \A r \in Range(response) :
          r.endpoint = "results" =>
              IF r.job_id \notin DOMAIN upload_storage
                  THEN r.status_code = 404
              ELSE IF upload_storage[r.job_id].status = "completed"
                  THEN r.status_code = 200 /\ r.body = "predictions"
              ELSE /\ r.status_code = 200
                   /\ r.body = upload_storage[r.job_id].status
                   /\ r.body \in {"uploaded", "failed"}

\* A results request on a job analyzed with success and then again with
\* failure: the predictions of the first run are stored, the answer is the
\* status 'failed'.
C26_Witness ==
    \E r \in Range(response) :
        /\ r.endpoint = "results"
        /\ r.job_id \in DOMAIN upload_storage
        /\ upload_storage[r.job_id].status = "failed"
        /\ ~IsNone(upload_storage[r.job_id].predictions)
        /\ r.body = "failed"

\* C27: in any sequence of upload, analyze and download requests
\* download_results returns a predictions file only for a job whose current
\* status is 'completed'; for a job never analyzed, or whose latest analysis
\* failed, it returns no predictions.
C27_DownloadOnlyWhenCompleted ==
    \A r \in Range(response) :
        (r.endpoint = "download" /\ r.body = "predictions_csv") =>
            /\ r.job_id \in DOMAIN upload_storage
            /\ upload_storage[r.job_id].status = "completed"

(***************************************************************************)
(* The pipeline runner (run_pipeline.py)                                   *)
(***************************************************************************)
steps ==
    <<[command |-> "python src/data/data_generator.py",
       description |-> "Step 1: Generate synthetic data", required |-> TRUE],
      [command |-> "python src/features/quick_features.py",
       description |-> "Step 2: Engineer features", required |-> TRUE],
      [command |-> "python src/models/train_model.py",
       description |-> "Step 3: Train XGBoost model", required |-> TRUE],
      [command |-> "python src/models/explain.py",
       description |-> "Step 4: Generate SHAP explanations", required |-> FALSE]>>

\* The largest return code a command of the model ends with.
MaxReturnCode == 2
ReturnCodes == 0 .. MaxReturnCode
\* What a command leaves on its standard output: nothing, or some text.
Stdouts == {"", "done"}
\* What a failing command leaves on its standard error.
Stderrs == {"", "Traceback"}

Line(kind, text, count) == [kind |-> kind, text |-> text, count |-> count]

\* check=True: a return code other than 0 raises CalledProcessError, which
\* run_command answers with False.
run_command_success(returncode) == returncode = 0

run_command_prints(description, returncode, stdout, stderr) ==
    <<Line("start", description, 0)>>
    \o (IF run_command_success(returncode)
            THEN <<Line("complete", description, 0)>>
                 \o (IF stdout # "" THEN <<Line("stdout", stdout, 0)>> ELSE << >>)
            ELSE <<Line("failed", description, 0), Line("Error", stderr, 0)>>)

\* The loop of main stopping at any step that failed.
step_aborts_on_any_failure(step, success) == ~success

\* elif step['required']: sys.exit(1).
step_aborts(step, success) == ~success /\ step.required

InitPipeline ==
    /\ IdleIslamic
    /\ IdleGate
    /\ IdleApi
    /\ IdleFeatures
    /\ IdleInference
    /\ IdleTelco
    /\ step_results = << >>
    /\ completed = 0
    /\ exit_status = None
    /\ printed = <<Line("header", "BARAKAH RETAIN - COMPLETE PIPELINE", 0)>>

\* One turn of the loop of main: run_command on the next step, then the
\* count or the exit.
RunStep ==
    /\ exit_status = None
    /\ Len(step_results) < Len(steps)
    /\ \E returncode \in ReturnCodes, stdout \in Stdouts, stderr \in Stderrs :
          LET step == steps[Len(step_results) + 1]
              success == run_command_success(returncode)
          IN  /\ step_results' =
                    Append(step_results,
                           [command |-> step.command, returncode |-> returncode])
              /\ completed' = IF success THEN completed + 1 ELSE completed
              /\ IF step_aborts(step, success)
                    THEN /\ printed' =
                               printed
                               \o run_command_prints(step.description, returncode, stdout, stderr)
                               \o <<Line("Pipeline failed at", step.description, 0)>>
                         /\ exit_status' = Some(1)
                    ELSE /\ printed' =
                               printed
                               \o run_command_prints(step.description, returncode, stdout, stderr)
                         /\ UNCHANGED exit_status
    /\ UNCHANGED <<gateVars, apiVars, featureVars, inferenceVars, telcoVars, islamicVars>>

\* After the loop: the report, and main returns.
ReportComplete ==
    /\ exit_status = None
    /\ Len(step_results) = Len(steps)
    /\ printed' =
          printed \o <<Line("header", "PIPELINE COMPLETE", 0),
                       Line("Completed", "steps", completed)>>
    /\ exit_status' = Some(0)
    /\ UNCHANGED <<step_results, completed>>
    /\ UNCHANGED <<gateVars, apiVars, featureVars, inferenceVars, telcoVars, islamicVars>>

NextPipeline == RunStep \/ ReportComplete

SpecPipeline == InitPipeline /\ [][NextPipeline]_vars

\* The steps started so far that ended with return code 0.
Succeeded == {i \in DOMAIN step_results : step_results[i].returncode = 0}
\* The required steps started so far that failed.
RequiredFailed ==
    {i \in DOMAIN step_results : steps[i].required /\ step_results[i].returncode # 0}
ReportedComplete == Line("header", "PIPELINE COMPLETE", 0) \in Range(printed)

\* C30: run_pipeline runs its steps in the order generate data, engineer
\* features, train model, explain; a step is started only after every
\* earlier required step succeeded; the failure of a required step ends the
\* run with exit status 1 and no later step started; the failure of the
\* optional explain step does not abort, the run still reports completion;
\* and the completed-step count is the number of steps that succeeded.
C30_PipelineOrderAndAbort ==
    /\ Len(step_results) <= Len(steps)
    /\ \A i \in DOMAIN step_results :
          /\ step_results[i].command = steps[i].command
          /\ \A j \in 1 .. i - 1 : steps[j].required => j \in Succeeded
    /\ \A i \in RequiredFailed :
          /\ exit_status = Some(1)
          /\ i = Len(step_results)
          /\ ~ReportedComplete
    /\ exit_status = Some(1) => RequiredFailed # {}
    /\ (Len(step_results) = Len(steps) /\ RequiredFailed = {} /\ exit_status = None) =>
          ENABLED ReportComplete
    /\ exit_status = Some(0) =>
          /\ ReportedComplete
          /\ Len(step_results) = Len(steps)
          /\ printed[Len(printed)] = Line("Completed", "steps", Cardinality(Succeeded))
    /\ completed = Cardinality(Succeeded)

\* The three required steps succeeded, explain failed, and the run reported
\* completion with three steps of four.
C30_Witness ==
    /\ Len(step_results) = Len(steps)
    /\ step_results[Len(steps)].returncode # 0
    /\ exit_status = Some(0)
    /\ ReportedComplete
    /\ completed = 3

====
